---- MODULE Spec2Model ----
(***************************************************************************)
(* Verification model of the goszakup tender parser: the progress store    *)
(* (database.py), the retrying HTTP client (http_client.py), the extractor *)
(* (parsers.py) and the orchestrator (main.py).                            *)
(*                                                                         *)
(* Conventions: Python None is None for strings, NoInt for optional        *)
(* integers and NullTime for a NULL timestamp.  A URL is the sequence of   *)
(* its '/'-separated segments.  Table rows are kept in insertion order, as *)
(* the AUTOINCREMENT id orders them.  The Russian table headers of         *)
(* FIELD_MAPPING are written in transliteration.                           *)
(***************************************************************************)
EXTENDS Integers, Sequences, FiniteSets, TLC

None == "None"
NoInt == -1
NullTime == 0

(***************************************************************************)
(* Bounds of the model.                                                    *)
(***************************************************************************)
MaxRuns == 2
MaxRetryArg == 4
MaxPages == 5
MaxLen == 4
MaxRows == 3
MaxCalls == 3

(***************************************************************************)
(* config.py                                                               *)
(***************************************************************************)
MAX_RETRIES == 3
RETRY_BASE_DELAY == 3
RATE_LIMIT_DELAY == 10

FieldLabels ==
    <<"Lot No", "Status lota", "BIN zakazchika", "Naimenovanie zakazchika",
      "Kod TRU", "Naimenovanie TRU", "Kratkaya harakteristika",
      "Dopolnitelnaya harakteristika", "Cena za edinicu",
      "Edinica izmereniya", "Kolichestvo", "Mesto postavki tovara, KATO">>

FieldKeys ==
    <<"lot_number", "lot_status", "customer_bin", "customer_name",
      "tru_code", "tru_name", "brief_description", "additional_description",
      "price_per_unit", "unit_of_measurement", "quantity",
      "delivery_location_kato">>

FIELD_MAPPING == [l \in {FieldLabels[k] : k \in 1..Len(FieldLabels)} |->
                    FieldKeys[CHOOSE k \in 1..Len(FieldLabels) : FieldLabels[k] = l]]

FieldKeySet == {FieldKeys[k] : k \in 1..Len(FieldKeys)}

(***************************************************************************)
(* parsers.py                                                              *)
(***************************************************************************)
\* mutant: the loop tests only "lot_id not in seen", an empty attribute value
\* is kept
RECURSIVE DedupFromKeepsEmpty(_, _, _)
DedupFromKeepsEmpty(ids, k, acc) ==
    IF k > Len(ids) THEN acc
    ELSE IF \A m \in 1..Len(acc) : acc[m] # ids[k]
         THEN DedupFromKeepsEmpty(ids, k + 1, Append(acc, ids[k]))
         ELSE DedupFromKeepsEmpty(ids, k + 1, acc)

RECURSIVE DedupFrom(_, _, _)
DedupFrom(ids, k, acc) ==
    IF k > Len(ids) THEN acc
    ELSE IF ids[k] # "" /\ \A m \in 1..Len(acc) : acc[m] # ids[k]
         THEN DedupFrom(ids, k + 1, Append(acc, ids[k]))
         ELSE DedupFrom(ids, k + 1, acc)

\* html_content is a page: whether lxml parses it, and the sequence of
\* data-lot-id attribute values of its anchors
extract_lot_ids(html_content) ==
    IF html_content.parses
    THEN DedupFrom(html_content.lot_id_attrs, 1, <<>>)
    ELSE <<>>

\* mutant: the value is stored as it is, an empty cell gives an empty
\* string instead of None
RECURSIVE ParseRowsKeepsEmpty(_, _, _)
ParseRowsKeepsEmpty(rows, k, result) ==
    IF k > Len(rows) THEN result
    ELSE LET field_name == rows[k][1]
             field_value == rows[k][2]
         IN  IF field_name \in DOMAIN FIELD_MAPPING
             THEN ParseRowsKeepsEmpty(rows, k + 1,
                    [result EXCEPT ![FIELD_MAPPING[field_name]] = field_value])
             ELSE ParseRowsKeepsEmpty(rows, k + 1, result)

RECURSIVE ParseRows(_, _, _)
ParseRows(rows, k, result) ==
    IF k > Len(rows) THEN result
    ELSE LET field_name == rows[k][1]
             field_value == rows[k][2]
         IN  IF field_name \in DOMAIN FIELD_MAPPING
             THEN ParseRows(rows, k + 1,
                    [result EXCEPT ![FIELD_MAPPING[field_name]] =
                        IF field_value # "" THEN field_value ELSE None])
             ELSE ParseRows(rows, k + 1, result)

\* html_content is the sequence of <<th text, td text>> rows of the table
parse_lot_table(html_content) ==
    ParseRows(html_content, 1, [f \in FieldKeySet |-> None])

\* mutant: the upper boundary is tested with <=, twelve filled fields are
\* still partial
determine_parse_status_no_success(parsed_data) ==
    LET filled_fields == Cardinality({f \in DOMAIN parsed_data : parsed_data[f] # None})
        total_fields == Len(FieldLabels)
    IN  IF filled_fields = 0
        THEN <<"failed", "No fields could be parsed">>
        ELSE <<"partial", "Only " \o ToString(filled_fields) \o "/"
                   \o ToString(total_fields) \o " fields parsed ("
                   \o ToString(total_fields - filled_fields) \o " missing)">>

determine_parse_status(parsed_data) ==
    LET filled_fields == Cardinality({f \in DOMAIN parsed_data : parsed_data[f] # None})
        total_fields == Len(FieldLabels)
    IN  IF filled_fields = 0
        THEN <<"failed", "No fields could be parsed">>
        ELSE IF filled_fields < total_fields
             THEN <<"partial", "Only " \o ToString(filled_fields) \o "/"
                        \o ToString(total_fields) \o " fields parsed ("
                        \o ToString(total_fields - filled_fields) \o " missing)">>
             ELSE <<"success", None>>

RECURSIVE RStrip(_)
RStrip(parts) ==
    IF Len(parts) > 1 /\ parts[Len(parts)] = ""
    THEN RStrip(SubSeq(parts, 1, Len(parts) - 1))
    ELSE parts

\* mutant: the URL is split without rstrip('/'), the empty piece after a
\* trailing slash is returned as the id
extract_announce_id_no_rstrip(url) ==
    LET parts == url
        hits == {k \in 1..Len(parts) : parts[k] = "index"}
    IN  IF hits # {}
        THEN LET idx == CHOOSE k \in hits : \A m \in hits : k <= m
             IN  IF idx + 1 <= Len(parts) THEN parts[idx + 1] ELSE None
        ELSE None

extract_announce_id(url) ==
    LET parts == RStrip(url)
        hits == {k \in 1..Len(parts) : parts[k] = "index"}
    IN  IF hits # {}
        THEN LET idx == CHOOSE k \in hits : \A m \in hits : k <= m
             IN  IF idx + 1 <= Len(parts) THEN parts[idx + 1] ELSE None
        ELSE None

(***************************************************************************)
(* database.py                                                             *)
(***************************************************************************)
HasLot(tbl, lot_url, data_lot_id) ==
    \E k \in 1..Len(tbl) : tbl[k].lot_url = lot_url /\ tbl[k].data_lot_id = data_lot_id

\* mutant: INSERT OR REPLACE, the later insert overwrites the stored record
insert_or_replace(tbl, lot_url, data_lot_id, announce_id, parsed_data, parse_status, error_message) ==
    LET rec == [lot_url |-> lot_url,
                data_lot_id |-> data_lot_id,
                announce_id |-> announce_id,
                fields |-> parsed_data,
                parse_status |-> parse_status,
                error_message |-> error_message]
    IN  IF HasLot(tbl, lot_url, data_lot_id)
        THEN [ok |-> TRUE,
              tbl |-> [k \in 1..Len(tbl) |->
                         IF tbl[k].lot_url = lot_url /\ tbl[k].data_lot_id = data_lot_id
                         THEN rec ELSE tbl[k]]]
        ELSE [ok |-> TRUE, tbl |-> Append(tbl, rec)]

\* returns [ok, tbl]: ok is the function's return value, tbl the new table.
\* The UNIQUE(lot_url, data_lot_id) constraint rejects the INSERT.
insert_lot_detail(tbl, lot_url, data_lot_id, announce_id, parsed_data, parse_status, error_message) ==
    IF HasLot(tbl, lot_url, data_lot_id)
    THEN [ok |-> FALSE, tbl |-> tbl]
    ELSE [ok |-> TRUE,
          tbl |-> Append(tbl, [lot_url |-> lot_url,
                               data_lot_id |-> data_lot_id,
                               announce_id |-> announce_id,
                               fields |-> parsed_data,
                               parse_status |-> parse_status,
                               error_message |-> error_message])]

HasRow(tbl, lot_url) == \E k \in 1..Len(tbl) : tbl[k].lot_url = lot_url

RowOf(tbl, lot_url) == tbl[CHOOSE k \in 1..Len(tbl) : tbl[k].lot_url = lot_url]

\* mutant: INSERT OR REPLACE, the row of a known URL is written afresh
get_or_replace_progress(tbl, lot_url, announce_id, t) ==
    LET new == [lot_url |-> lot_url,
                announce_id |-> announce_id,
                status |-> "pending",
                lot_ids_found |-> 0,
                lot_ids_processed |-> 0,
                started_at |-> t,
                completed_at |-> NullTime,
                error_count |-> 0,
                last_error |-> None]
    IN  IF HasRow(tbl, lot_url)
        THEN [row |-> new,
              tbl |-> [k \in 1..Len(tbl) |->
                         IF tbl[k].lot_url = lot_url THEN new ELSE tbl[k]]]
        ELSE [row |-> new, tbl |-> Append(tbl, new)]

\* returns [row, tbl]
get_or_create_progress(tbl, lot_url, announce_id, t) ==
    IF HasRow(tbl, lot_url)
    THEN [row |-> RowOf(tbl, lot_url), tbl |-> tbl]
    ELSE LET new == [lot_url |-> lot_url,
                     announce_id |-> announce_id,
                     status |-> "pending",
                     lot_ids_found |-> 0,
                     lot_ids_processed |-> 0,
                     started_at |-> t,
                     completed_at |-> NullTime,
                     error_count |-> 0,
                     last_error |-> None]
         IN  [row |-> new, tbl |-> Append(tbl, new)]

NoArgs ==
    [status |-> None, lot_ids_found |-> NoInt, lot_ids_processed |-> NoInt,
     error_count |-> NoInt, last_error |-> None]

\* mutant: started_at is stamped only while the row is still pending
UpdatedRowStampsOnce(r, a, t) ==
    [r EXCEPT
       !.status = IF a.status # None /\ a.status # "" THEN a.status ELSE @,
       !.started_at = IF a.status = "processing" /\ a.lot_ids_found = NoInt
                         /\ r.status = "pending"
                      THEN t ELSE @,
       !.completed_at = IF a.status = "completed" THEN t ELSE @,
       !.lot_ids_found = IF a.lot_ids_found # NoInt THEN a.lot_ids_found ELSE @,
       !.lot_ids_processed = IF a.lot_ids_processed # NoInt
                             THEN a.lot_ids_processed ELSE @,
       !.error_count = IF a.error_count # NoInt THEN a.error_count ELSE @,
       !.last_error = IF a.last_error # None THEN a.last_error ELSE @]

\* mutant: a passed status also clears the error fields
UpdatedRowClearsError(r, a, t) ==
    [r EXCEPT
       !.status = IF a.status # None /\ a.status # "" THEN a.status ELSE @,
       !.started_at = IF a.status = "processing" /\ a.lot_ids_found = NoInt
                      THEN t ELSE @,
       !.completed_at = IF a.status = "completed" THEN t ELSE @,
       !.lot_ids_found = IF a.lot_ids_found # NoInt THEN a.lot_ids_found ELSE @,
       !.lot_ids_processed = IF a.lot_ids_processed # NoInt
                             THEN a.lot_ids_processed ELSE @,
       !.error_count = IF a.error_count # NoInt THEN a.error_count
                       ELSE IF a.status # None THEN 0 ELSE @,
       !.last_error = IF a.last_error # None THEN a.last_error
                      ELSE IF a.status # None THEN None ELSE @]

UpdatedRow(r, a, t) ==
    [r EXCEPT
       !.status = IF a.status # None /\ a.status # "" THEN a.status ELSE @,
       !.started_at = IF a.status = "processing" /\ a.lot_ids_found = NoInt
                      THEN t ELSE @,
       !.completed_at = IF a.status = "completed" THEN t ELSE @,
       !.lot_ids_found = IF a.lot_ids_found # NoInt THEN a.lot_ids_found ELSE @,
       !.lot_ids_processed = IF a.lot_ids_processed # NoInt
                             THEN a.lot_ids_processed ELSE @,
       !.error_count = IF a.error_count # NoInt THEN a.error_count ELSE @,
       !.last_error = IF a.last_error # None THEN a.last_error ELSE @]

\* mutant: the row of a URL that is set to completed is removed
update_progress_purging(tbl, lot_url, a, t) ==
    LET keep(r) == ~(r.lot_url = lot_url /\ a.status = "completed")
        kept == SelectSeq(tbl, keep)
    IN  [k \in 1..Len(kept) |->
            IF kept[k].lot_url = lot_url THEN UpdatedRow(kept[k], a, t) ELSE kept[k]]

\* a is the record of keyword arguments (NoArgs with the passed ones set)
update_progress(tbl, lot_url, a, t) ==
    [k \in 1..Len(tbl) |->
        IF tbl[k].lot_url = lot_url THEN UpdatedRow(tbl[k], a, t) ELSE tbl[k]]

RECURSIVE PendingFrom(_, _)
PendingFrom(tbl, k) ==
    IF k > Len(tbl) THEN <<>>
    ELSE IF tbl[k].status \in {"pending", "failed"}
         THEN <<tbl[k].lot_url>> \o PendingFrom(tbl, k + 1)
         ELSE PendingFrom(tbl, k + 1)

get_pending_urls(tbl) == PendingFrom(tbl, 1)

increment_processed(tbl, lot_url) ==
    [k \in 1..Len(tbl) |->
        IF tbl[k].lot_url = lot_url
        THEN [tbl[k] EXCEPT !.lot_ids_processed = @ + 1]
        ELSE tbl[k]]

(***************************************************************************)
(* http_client.py                                                          *)
(***************************************************************************)
VARIABLES
    max_retries,      \* GoszakupHTTPClient.max_retries
    h_pc,             \* "idle", "request" (top of the retry loop), "returned",
                      \* "raised" (an exception left post_with_retry)
    attempt,          \* loop variable of post_with_retry
    h_trace,          \* transport outcome of every session.post of the call
    h_sleeps,         \* argument of every time.sleep of the call
    h_response,       \* returned value: a status code, or NoInt for None
    h_fetcher,        \* the fetcher that returned on top of the call, or None
    h_body            \* what that fetcher returned: a body text, or None

httpVars == <<max_retries, h_pc, attempt, h_trace, h_sleeps, h_response, h_fetcher, h_body>>

StatusCodes == {200, 201, 204, 304, 400, 404, 429, 500, 503}

\* what one session.post can do: answer with a status code or raise
Outcomes ==
    [kind : {"status"}, code : StatusCodes]
      \cup [kind : {"Timeout", "ConnectionError", "RequestException"}, code : {NoInt}]

Is429(o) == o.kind = "status" /\ o.code = 429
Is5xx(o) == o.kind = "status" /\ 500 <= o.code /\ o.code < 600
Is4xxOther(o) == o.kind = "status" /\ 400 <= o.code /\ o.code < 500 /\ o.code # 429

\* mutant: the rate-limit delay is not scaled by the attempt number
RateLimitWaitFlat(rate_limit_delay, a) == rate_limit_delay

RateLimitWait(rate_limit_delay, a) == rate_limit_delay * a

\* mutant: linear instead of exponential backoff
BackoffWaitLinear(base_delay, a) == base_delay * a

BackoffWait(base_delay, a) == base_delay * (2 ^ (a - 1))

\* the classes named by the except clauses of post_with_retry
ExceptClauses == {"Timeout", "ConnectionError", "RequestException"}

\* requests.exceptions: every class derives from RequestException
IsInstance(kind, class) == kind = class \/ class = "RequestException"

\* mutant: the last except clause (RequestException) is missing
CaughtNarrow(kind) == kind \in {"Timeout", "ConnectionError"}

\* an exception of this kind raised in the try block is caught by a clause
Caught(kind) == \E class \in ExceptClauses : IsInstance(kind, class)

\* mutant: the test is "attempt <= max_retries", the last attempt is
\* followed by a sleep and one more request
RetryOrGiveUpOnceMore(a, max) ==
    IF a <= max
    THEN [sleep |-> BackoffWait(RETRY_BASE_DELAY, a), done |-> FALSE,
          response |-> NoInt, raised |-> FALSE]
    ELSE [sleep |-> NoInt, done |-> TRUE, response |-> NoInt, raised |-> FALSE]

\* one iteration of the retry loop on transport outcome o at attempt a;
\* returns [sleep, done, response, raised]: the time slept (NoInt for no
\* sleep), whether the function is left in this iteration, the returned
\* value, and whether it is left by an exception
RetryOrGiveUp(a, max) ==
    IF a < max
    THEN [sleep |-> BackoffWait(RETRY_BASE_DELAY, a), done |-> FALSE,
          response |-> NoInt, raised |-> FALSE]
    ELSE [sleep |-> NoInt, done |-> TRUE, response |-> NoInt, raised |-> FALSE]

\* an exception of this kind is raised inside the try block at attempt a
OnException(kind, a, max) ==
    IF Caught(kind)
    THEN RetryOrGiveUp(a, max)
    ELSE [sleep |-> NoInt, done |-> TRUE, response |-> NoInt, raised |-> TRUE]

\* mutant: the loop runs over range(1, max_retries + 2)
RangeExhaustedLate(a, max) == a >= max + 1

\* the for loop over range(1, max_retries + 1) has no further iteration
RangeExhausted(a, max) == a >= max

LoopBody(o, a, max) ==
    IF o.kind = "status"
    THEN IF o.code = 429
         THEN \* sleep, continue; the for loop ends after the last attempt
              [sleep |-> RateLimitWait(RATE_LIMIT_DELAY, a),
               done |-> RangeExhausted(a, max), response |-> NoInt, raised |-> FALSE]
         ELSE IF 500 <= o.code /\ o.code < 600
              THEN RetryOrGiveUp(a, max)
              ELSE IF 400 <= o.code /\ o.code < 600
                   THEN \* raise_for_status raises HTTPError, a
                        \* RequestException, caught by the last handler
                        OnException("HTTPError", a, max)
                   ELSE [sleep |-> NoInt, done |-> TRUE, response |-> o.code,
                         raised |-> FALSE]
    ELSE \* Timeout, ConnectionError and RequestException handlers
         OnException(o.kind, a, max)

HttpIdle ==
    /\ h_pc = "idle"
    /\ attempt = 0
    /\ h_trace = <<>>
    /\ h_sleeps = <<>>
    /\ h_response = NoInt
    /\ h_fetcher = None
    /\ h_body = None

\* post_with_retry is entered; range(1, max_retries + 1) may be empty
HttpCall ==
    /\ h_pc \in {"idle", "returned"}
    /\ h_pc' = IF max_retries < 1 THEN "returned" ELSE "request"
    /\ attempt' = 1
    /\ h_trace' = <<>>
    /\ h_sleeps' = <<>>
    /\ h_response' = NoInt
    /\ h_fetcher' = None
    /\ h_body' = None
    /\ UNCHANGED max_retries

\* one iteration of the for loop, the transport answering with o
HttpAttempt(o) ==
    /\ h_pc = "request"
    /\ LET r == LoopBody(o, attempt, max_retries)
       IN  /\ h_trace' = Append(h_trace, o)
           /\ h_sleeps' = IF r.sleep # NoInt THEN Append(h_sleeps, r.sleep) ELSE h_sleeps
           /\ h_pc' = IF r.raised THEN "raised" ELSE IF r.done THEN "returned" ELSE "request"
           /\ attempt' = IF r.done THEN attempt ELSE attempt + 1
           /\ h_response' = r.response
    /\ UNCHANGED <<max_retries, h_fetcher, h_body>>

\* Response.__bool__ is Response.ok: no 4xx/5xx status
ResponseOk(code) == code # NoInt /\ ~(400 <= code /\ code < 600)

\* get_lot_ids_page / get_lot_detail on the value post_with_retry returned:
\* TRUE when response.text is returned, FALSE when None is
ReturnsText(code) == ResponseOk(code) /\ code = 200

\* get_lot_ids_page on what post_with_retry returned: response.text or None
get_lot_ids_page(resp) ==
    IF ReturnsText(resp.status_code) THEN resp.text ELSE None

\* get_lot_detail on what post_with_retry returned: response.text or None
get_lot_detail(resp) ==
    IF ReturnsText(resp.status_code) THEN resp.text ELSE None

Fetchers == {"get_lot_ids_page", "get_lot_detail"}

\* the body texts of a response, as far as the fetchers tell them apart
BodyTexts == {"", "page"}

\* the fetcher f returns, post_with_retry having returned a response with
\* body text or None
FetcherReturn(f, text) ==
    /\ h_pc = "returned"
    /\ h_fetcher = None
    /\ h_fetcher' = f
    /\ LET resp == [status_code |-> h_response, text |-> text]
       IN  h_body' = IF f = "get_lot_ids_page" THEN get_lot_ids_page(resp)
                                              ELSE get_lot_detail(resp)
    /\ UNCHANGED <<max_retries, h_pc, attempt, h_trace, h_sleeps, h_response>>

VARIABLES
    db_call,          \* the last call made on the store
    db_ret            \* the value it returned

dbVars == <<db_call, db_ret>>

DbIdle ==
    /\ db_call = [op |-> "none"]
    /\ db_ret = FALSE

(***************************************************************************)
(* scraper.py: the state of the link discovery crawler                     *)
(***************************************************************************)
VARIABLES
    s_pc,                     \* position of GoszakupScraper.run
    s_max_links,              \* argument max_links of run (0 for None or 0)
    checkpoint_interval,      \* config['CHECKPOINT_INTERVAL']
    all_links,                \* GoszakupScraper.all_links
    pages_scraped,            \* GoszakupScraper.pages_scraped
    page_num,                 \* run: page_num
    consecutive_empty_pages,  \* run: consecutive_empty_pages
    new_links_count,          \* run: what scrape_page returned
    files,                    \* content of the output file and of its .tmp
    save_final,               \* save_checkpoint: argument final
    save_data,                \* save_checkpoint: data, of the last call
    save_ret,                 \* where run goes on after save_checkpoint
    s_exit,                   \* how the while loop was left, None inside it
    new_counts,               \* history: new_links_count of every page (0, or
                              \* 1 for any greater count)
    final_saves,              \* history: calls of save_checkpoint(final=True)
    load_failures             \* history: pages in a row, up to the last one,
                              \* that failed to load

scrVars == <<s_pc, s_max_links, checkpoint_interval, all_links, pages_scraped, page_num, consecutive_empty_pages, new_links_count, files, save_final, save_data, save_ret, s_exit, new_counts, final_saves, load_failures>>

\* a file that does not exist; also the data of no save_checkpoint call
Absent == [exists |-> FALSE, complete |-> FALSE, total_links |-> NoInt, pages_scraped |-> NoInt, links |-> <<>>]

\* the files of a run that wrote nothing
NoFiles == [f \in {"out", "tmp"} |-> Absent]

ScrIdle ==
    /\ s_pc = "not_started"
    /\ s_max_links = 0
    /\ checkpoint_interval = 1
    /\ all_links = {}
    /\ pages_scraped = 0
    /\ page_num = 1
    /\ consecutive_empty_pages = 0
    /\ new_links_count = 0
    /\ files = NoFiles
    /\ save_final = FALSE
    /\ save_data = Absent
    /\ save_ret = None
    /\ s_exit = None
    /\ new_counts = <<>>
    /\ load_failures = 0
    /\ final_saves = 0

(***************************************************************************)
(* parsers.py called on its own: one call of one function                  *)
(***************************************************************************)
VARIABLES
    fn_name,          \* the function called
    fn_arg,           \* its argument
    fn_pc,            \* "idle", "called" or "returned"
    fn_ret            \* the value returned

fnVars == <<fn_name, fn_arg, fn_pc, fn_ret>>

FnIdle ==
    /\ fn_name = None
    /\ fn_arg = <<>>
    /\ fn_pc = "idle"
    /\ fn_ret = <<>>

(***************************************************************************)
(* main.py: the input file as the process found it, and the status the     *)
(* process exited with                                                     *)
(***************************************************************************)
VARIABLES
    input_file,       \* "ok", "missing", "invalid_json" or "not_an_object"
    exit_status       \* NoInt while there is none

exitVars == <<input_file, exit_status>>

libVars == <<httpVars, dbVars, scrVars, fnVars>>

otherVars == <<libVars, exitVars>>

(***************************************************************************)
(* The portal and the input file                                           *)
(***************************************************************************)
U1 == <<"https:", "", "goszakup.gov.kz", "ru", "announce", "index", "16099116">>
U2 == <<"https:", "", "goszakup.gov.kz", "ru", "announce", "index", "15908669", "">>
UBad == <<"https:", "", "goszakup.gov.kz", "ru", "announce", "view">>

\* the links array of the input JSON file
InputLinks == <<U1, UBad, U2>>

Page(attrs) == [parses |-> TRUE, lot_id_attrs |-> attrs]

\* a body lxml cannot parse
Garbage == [parses |-> FALSE, lot_id_attrs |-> <<>>]

\* the listing pages the portal can serve for a URL
Listings(u) ==
    IF u = U1 THEN {Page(<<"5", "3", "5">>), Page(<<"3">>)}
    ELSE IF u = U2 THEN {Page(<<"3", "">>)}
    ELSE {Page(<<>>)}

FullTable == [k \in 1..Len(FieldLabels) |-> <<FieldLabels[k], "v">>]

PartialTable ==
    <<<<"Lot No", "1">>, <<"Kod TRU", "">>, <<"Primechanie", "x">>, <<"Kolichestvo", "2">>>>

\* rows of the lot-detail table the portal can answer with for a lot id
DetailHtmls(lot_id) ==
    IF lot_id = "5" THEN {PartialTable, FullTable}
    ELSE IF lot_id = "3" THEN {<<>>}
    ELSE {FullTable}

AllDetailHtmls == {<<>>, PartialTable, FullTable}

\* what get_lot_ids_page / get_lot_detail receive from post_with_retry:
\* None or a response, whose text is empty (""), what the portal serves
\* ("page") or something else ("garbage")
FetchResponses ==
    {[status_code |-> NoInt, text |-> ""],
     [status_code |-> 200, text |-> ""],
     [status_code |-> 200, text |-> "page"],
     [status_code |-> 200, text |-> "garbage"],
     [status_code |-> 204, text |-> "page"]}

\* get_lot_detail: the text of a 200 response is the table DetailHtmls gives
DetailResponses == {r \in FetchResponses : r.text # "garbage"}

\* "not html_content" of the callers
NoContent(resp) == ~ReturnsText(resp.status_code) \/ resp.text = ""

ExceptionMessages == {"boom"}

MaxUrlsArgs == {NoInt, 1}

(***************************************************************************)
(* main.py                                                                 *)
(***************************************************************************)
VARIABLES
    scraping_progress,   \* table scraping_progress
    lot_details,         \* table lot_details
    now,                 \* datetime.now(), at the granularity of runs
    site,                \* the listing the portal serves for each URL
    pc,                  \* position of the process
    runs,                \* number of processes started so far
    resume,              \* TenderParser.resume
    max_urls,            \* TenderParser.max_urls (NoInt for None)
    urls,                \* the list load_urls returned
    i,                   \* position of the run loop in urls
    announce_url,        \* argument of process_url
    html_content,        \* process_url: what get_lot_ids_page returned
    exc,                 \* process_url: the exception caught, as str(e)
    lot_ids,             \* lot ids extracted from the listing page
    j,                   \* position of the lot loop in lot_ids
    shutdown_requested,  \* TenderParser.shutdown_requested
    stats,               \* TenderParser.stats
    run_clean            \* history: no signal and no failed fetch in this run

orchVars == <<scraping_progress, lot_details, now, site, pc, runs, resume,
              max_urls, urls, i, announce_url, html_content, exc, lot_ids, j,
              shutdown_requested, stats, run_clean>>

vars == <<httpVars, dbVars, scrVars, orchVars, fnVars, exitVars>>

ZeroStats == [urls_processed |-> 0, lots_found |-> 0, lots_saved |-> 0, lots_failed |-> 0]

Running ==
    pc \in {"run_loop", "url_check", "fetch_listing", "listing_fetched", "except",
            "lot_loop", "lot_fetch"}

LinkSet == {InputLinks[k] : k \in 1..Len(InputLinks)}

Sites == {s \in [LinkSet -> UNION {Listings(u) : u \in LinkSet}] :
            \A u \in LinkSet : s[u] \in Listings(u)}

OrchIdle ==
    /\ scraping_progress = <<>>
    /\ lot_details = <<>>
    /\ now = 1
    /\ pc = "not_started"
    /\ runs = 0
    /\ resume = TRUE
    /\ max_urls = NoInt
    /\ urls = <<>>
    /\ i = 0
    /\ announce_url = <<>>
    /\ html_content = None
    /\ exc = None
    /\ lot_ids = <<>>
    /\ j = 0
    /\ shutdown_requested = FALSE
    /\ stats = ZeroStats
    /\ run_clean = TRUE

Init ==
    /\ OrchIdle
    /\ site \in Sites
    /\ HttpIdle
    /\ max_retries = MAX_RETRIES
    /\ DbIdle
    /\ ScrIdle
    /\ FnIdle
    /\ input_file = None
    /\ exit_status = NoInt

InPending(tbl, u) ==
    \E k \in 1..Len(get_pending_urls(tbl)) : get_pending_urls(tbl)[k] = u

\* mutant: the filter keeps the pending URLs only
ResumeFilterPending(links, tbl) ==
    LET keep(u) == InPending(tbl, u)
    IN  SelectSeq(links, keep)

ResumeFilter(links, tbl) ==
    LET keep(u) == InPending(tbl, u) \/ ~InPending(tbl, u)
    IN  SelectSeq(links, keep)

load_urls(links, tbl, res, max) ==
    LET filtered == IF res /\ get_pending_urls(tbl) # <<>>
                    THEN ResumeFilter(links, tbl)
                    ELSE links
    IN  IF max # NoInt /\ max # 0 /\ Len(filtered) > max
        THEN SubSeq(filtered, 1, max)
        ELSE filtered

\* the memory of a process that ended holds nothing
Forgotten ==
    /\ urls' = <<>>
    /\ i' = 0
    /\ announce_url' = <<>>
    /\ html_content' = None
    /\ exc' = None
    /\ lot_ids' = <<>>
    /\ j' = 0
    /\ shutdown_requested' = FALSE
    /\ stats' = ZeroStats

\* a new process: TenderParser(json_file, max_urls, resume).run() up to the
\* loop; s is what the portal serves while this process runs
StartRun(res, max, s) ==
    /\ pc \in {"not_started", "exited", "killed", "aborted"}
    /\ runs < MaxRuns
    /\ runs' = runs + 1
    /\ now' = now + 1
    /\ site' = s
    /\ resume' = res
    /\ max_urls' = max
    /\ urls' = load_urls(InputLinks, scraping_progress, res, max)
    /\ pc' = "run_loop"
    /\ i' = 1
    /\ announce_url' = <<>>
    /\ html_content' = None
    /\ exc' = None
    /\ lot_ids' = <<>>
    /\ j' = 0
    /\ shutdown_requested' = FALSE
    /\ stats' = ZeroStats
    /\ run_clean' = TRUE
    /\ input_file' = "ok"
    /\ exit_status' = NoInt
    /\ UNCHANGED <<scraping_progress, lot_details, libVars>>

\* what open() and json.load() can make of an input file that does not load:
\* FileNotFoundError, json.JSONDecodeError, or valid JSON that is not an
\* object (data.get raises AttributeError)
BadInputFiles == {"missing", "invalid_json", "not_an_object"}

\* mutant: only the missing file ends the process, invalid JSON is left to
\* the handler of run()
LoadUrlsExitsMissingOnly(kind) == kind = "missing"

\* load_urls: the two except clauses that call sys.exit(1)
LoadUrlsExits(kind) == kind \in {"missing", "invalid_json"}

\* a new process whose load_urls raises. SystemExit is not an Exception: it
\* passes "except Exception" of run(), the finally clause prints the summary
\* and the process ends with status 1. Any other exception is caught and
\* logged by run(), and the process returns from main() with status 0.
\* self.resume and self.max_urls are never read.
LoadUrlsFails(kind) ==
    /\ pc \in {"not_started", "exited", "killed", "aborted"}
    /\ input_file' = kind
    /\ exit_status' = IF LoadUrlsExits(kind) THEN 1 ELSE 0
    /\ pc' = "aborted"
    /\ Forgotten
    /\ UNCHANGED <<scraping_progress, lot_details, now, site, runs, resume,
                   max_urls, run_clean, libVars>>

\* SIGINT / SIGTERM handler
RequestShutdown ==
    /\ Running
    /\ ~shutdown_requested
    /\ shutdown_requested' = TRUE
    /\ run_clean' = FALSE
    /\ UNCHANGED <<scraping_progress, lot_details, now, site, pc, runs, resume,
                   max_urls, urls, i, announce_url, html_content, exc, lot_ids, j,
                   stats, otherVars>>

\* the process dies (kill -9, power loss) between two steps
Kill ==
    /\ Running
    /\ pc' = "killed"
    /\ run_clean' = FALSE
    /\ Forgotten
    /\ UNCHANGED <<scraping_progress, lot_details, now, site, runs, resume,
                   max_urls, otherVars>>

\* run(): the for loop ends or breaks on shutdown, then cleanup()
RunLoopExit ==
    /\ pc = "run_loop"
    /\ i > Len(urls) \/ shutdown_requested
    /\ pc' = "exited"
    /\ exit_status' = 0
    /\ Forgotten
    /\ UNCHANGED <<scraping_progress, lot_details, now, site, runs, resume,
                   max_urls, run_clean, input_file, libVars>>

\* mutant: a URL without an announce id is recorded as failed
ProcessUrlEnterRecordsFailure ==
    /\ pc = "run_loop"
    /\ i <= Len(urls)
    /\ ~shutdown_requested
    /\ LET url == urls[i]
           announce_id == extract_announce_id(url)
       IN  IF announce_id = None \/ announce_id = ""
           THEN /\ i' = i + 1
                /\ scraping_progress' =
                      update_progress(
                          get_or_create_progress(scraping_progress, url, "", now).tbl,
                          url, [NoArgs EXCEPT !.status = "failed"], now)
                /\ UNCHANGED <<pc, announce_url>>
           ELSE /\ scraping_progress' =
                      get_or_create_progress(scraping_progress, url, announce_id, now).tbl
                /\ announce_url' = url
                /\ pc' = "url_check"
                /\ UNCHANGED i
    /\ UNCHANGED <<lot_details, now, site, runs, resume, max_urls, urls, html_content,
                   exc, lot_ids, j, shutdown_requested, stats, run_clean, otherVars>>

\* process_url up to get_or_create_progress
ProcessUrlEnter ==
    /\ pc = "run_loop"
    /\ i <= Len(urls)
    /\ ~shutdown_requested
    /\ LET url == urls[i]
           announce_id == extract_announce_id(url)
       IN  IF announce_id = None \/ announce_id = ""
           THEN /\ i' = i + 1
                /\ UNCHANGED <<scraping_progress, pc, announce_url>>
           ELSE /\ scraping_progress' =
                      get_or_create_progress(scraping_progress, url, announce_id, now).tbl
                /\ announce_url' = url
                /\ pc' = "url_check"
                /\ UNCHANGED i
    /\ UNCHANGED <<lot_details, now, site, runs, resume, max_urls, urls, html_content,
                   exc, lot_ids, j, shutdown_requested, stats, run_clean, otherVars>>

\* mutant: a failed URL is skipped like a completed one
SkipFinished(status, res) == status \in {"completed", "failed"} /\ res

\* mutant: a URL found in status processing is skipped like a completed one
SkipStarted(status, res) == status \in {"completed", "processing"} /\ res

\* mutant: the resume flag is tested the wrong way round
SkipUnlessResume(status, res) == status = "completed" /\ ~res

\* process_url: "if progress['status'] == 'completed' and self.resume"
SkipCompleted(status, res) == status = "completed" /\ res

\* mutant: the status is set to processing before the resume check
UrlCheckMarksFirst ==
    /\ pc = "url_check"
    /\ scraping_progress' =
          update_progress(scraping_progress, announce_url,
                          [NoArgs EXCEPT !.status = "processing"], now)
    /\ IF SkipCompleted(RowOf(scraping_progress, announce_url).status, resume)
       THEN /\ pc' = "run_loop"
            /\ i' = i + 1
       ELSE /\ pc' = "fetch_listing"
            /\ UNCHANGED i
    /\ UNCHANGED <<lot_details, now, site, runs, resume, max_urls, urls, announce_url,
                   html_content, exc, lot_ids, j, shutdown_requested, stats,
                   run_clean, otherVars>>

\* process_url: the resume check and the move to processing
UrlCheck ==
    /\ pc = "url_check"
    /\ IF SkipCompleted(RowOf(scraping_progress, announce_url).status, resume)
       THEN /\ pc' = "run_loop"
            /\ i' = i + 1
            /\ UNCHANGED scraping_progress
       ELSE /\ scraping_progress' =
                  update_progress(scraping_progress, announce_url,
                                  [NoArgs EXCEPT !.status = "processing"], now)
            /\ pc' = "fetch_listing"
            /\ UNCHANGED i
    /\ UNCHANGED <<lot_details, now, site, runs, resume, max_urls, urls, announce_url,
                   html_content, exc, lot_ids, j, shutdown_requested, stats,
                   run_clean, otherVars>>

\* process_url step 1: get_lot_ids_page returns
FetchListing(resp) ==
    /\ pc = "fetch_listing"
    /\ html_content' = get_lot_ids_page(resp)
    /\ pc' = "listing_fetched"
    /\ run_clean' = (run_clean /\ html_content' = "page")
    /\ UNCHANGED <<scraping_progress, lot_details, now, site, runs, resume, max_urls,
                   urls, i, announce_url, exc, lot_ids, j, shutdown_requested, stats,
                   otherVars>>

\* process_url step 1: an exception is raised inside the try block
FetchListingRaises(e) ==
    /\ pc = "fetch_listing"
    /\ exc' = e
    /\ pc' = "except"
    /\ run_clean' = FALSE
    /\ UNCHANGED <<scraping_progress, lot_details, now, site, runs, resume, max_urls,
                   urls, i, announce_url, html_content, lot_ids, j,
                   shutdown_requested, stats, otherVars>>

\* mutant: a URL without lot ids is left without a status update
HandleListingNoLotsReturns ==
    /\ pc = "listing_fetched"
    /\ IF html_content \in {None, ""}
       THEN /\ scraping_progress' =
                  update_progress(scraping_progress, announce_url,
                      [NoArgs EXCEPT !.status = "failed",
                                     !.last_error = "Failed to fetch lot IDs page"], now)
            /\ pc' = "run_loop"
            /\ i' = i + 1
            /\ UNCHANGED <<lot_ids, j, stats>>
       ELSE LET ids == extract_lot_ids(IF html_content = "page"
                                            THEN site[announce_url] ELSE Garbage)
            IN  IF ids = <<>>
                THEN /\ UNCHANGED scraping_progress
                     /\ pc' = "run_loop"
                     /\ i' = i + 1
                     /\ UNCHANGED <<lot_ids, j, stats>>
                ELSE /\ scraping_progress' =
                           update_progress(scraping_progress, announce_url,
                               [NoArgs EXCEPT !.lot_ids_found = Len(ids)], now)
                     /\ stats' = [stats EXCEPT !.lots_found = @ + Len(ids)]
                     /\ lot_ids' = ids
                     /\ j' = 1
                     /\ pc' = "lot_loop"
                     /\ UNCHANGED i
    /\ UNCHANGED <<lot_details, now, site, runs, resume, max_urls, urls, announce_url,
                   html_content, exc, shutdown_requested, run_clean, otherVars>>

\* process_url: "if not html_content", extract_lot_ids, "if not lot_ids"
HandleListing ==
    /\ pc = "listing_fetched"
    /\ IF html_content \in {None, ""}
       THEN /\ scraping_progress' =
                  update_progress(scraping_progress, announce_url,
                      [NoArgs EXCEPT !.status = "failed",
                                     !.last_error = "Failed to fetch lot IDs page"], now)
            /\ pc' = "run_loop"
            /\ i' = i + 1
            /\ UNCHANGED <<lot_ids, j, stats>>
       ELSE LET ids == extract_lot_ids(IF html_content = "page"
                                            THEN site[announce_url] ELSE Garbage)
            IN  IF ids = <<>>
                THEN /\ scraping_progress' =
                           update_progress(scraping_progress, announce_url,
                               [NoArgs EXCEPT !.status = "completed",
                                              !.lot_ids_found = 0,
                                              !.lot_ids_processed = 0], now)
                     /\ pc' = "run_loop"
                     /\ i' = i + 1
                     /\ UNCHANGED <<lot_ids, j, stats>>
                ELSE /\ scraping_progress' =
                           update_progress(scraping_progress, announce_url,
                               [NoArgs EXCEPT !.lot_ids_found = Len(ids)], now)
                     /\ stats' = [stats EXCEPT !.lots_found = @ + Len(ids)]
                     /\ lot_ids' = ids
                     /\ j' = 1
                     /\ pc' = "lot_loop"
                     /\ UNCHANGED i
    /\ UNCHANGED <<lot_details, now, site, runs, resume, max_urls, urls, announce_url,
                   html_content, exc, shutdown_requested, run_clean, otherVars>>

\* mutant: no try/except in process_url, the exception reaches run()
ExceptHandlerAbort ==
    /\ pc = "except"
    /\ pc' = "exited"
    /\ Forgotten
    /\ UNCHANGED <<scraping_progress, lot_details, now, site, runs, resume,
                   max_urls, run_clean, otherVars>>

\* mutant: the handler records the failure without the exception's message
ExceptHandlerNoMessage ==
    /\ pc = "except"
    /\ scraping_progress' =
          update_progress(scraping_progress, announce_url,
              [NoArgs EXCEPT !.status = "failed"], now)
    /\ pc' = "run_loop"
    /\ i' = i + 1
    /\ UNCHANGED <<lot_details, now, site, runs, resume, max_urls, urls, announce_url,
                   html_content, exc, lot_ids, j, shutdown_requested, stats,
                   run_clean, otherVars>>

\* process_url: the except clause
ExceptHandler ==
    /\ pc = "except"
    /\ scraping_progress' =
          update_progress(scraping_progress, announce_url,
              [NoArgs EXCEPT !.status = "failed", !.last_error = exc], now)
    /\ pc' = "run_loop"
    /\ i' = i + 1
    /\ UNCHANGED <<lot_details, now, site, runs, resume, max_urls, urls, announce_url,
                   html_content, exc, lot_ids, j, shutdown_requested, stats,
                   run_clean, otherVars>>

\* mutant: the lot loop does not test the shutdown flag
LotLoopEndsNoFlag(k, n, flag) == k > n

\* the lot loop, about to take lot k of n, ends: the list is exhausted or
\* "if self.shutdown_requested: break"
LotLoopEnds(k, n, flag) == k > n \/ flag

\* mutant: a URL whose lot loop was cut short by the shutdown is marked failed
LotLoopHeadFailsInterrupted ==
    /\ pc = "lot_loop"
    /\ IF LotLoopEnds(j, Len(lot_ids), shutdown_requested)
       THEN /\ scraping_progress' =
                  update_progress(scraping_progress, announce_url,
                      [NoArgs EXCEPT !.status = IF j > Len(lot_ids) THEN "completed"
                                                                    ELSE "failed"], now)
            /\ stats' = [stats EXCEPT !.urls_processed = @ + 1]
            /\ pc' = "run_loop"
            /\ i' = i + 1
       ELSE /\ pc' = "lot_fetch"
            /\ UNCHANGED <<scraping_progress, stats, i>>
    /\ UNCHANGED <<lot_details, now, site, runs, resume, max_urls, urls, announce_url,
                   html_content, exc, lot_ids, j, shutdown_requested, run_clean,
                   otherVars>>

\* the head of the lot loop: leave it (end of list or shutdown) and mark the
\* URL completed, or call process_lot, which issues the lot-detail request
LotLoopHead ==
    /\ pc = "lot_loop"
    /\ IF LotLoopEnds(j, Len(lot_ids), shutdown_requested)
       THEN /\ scraping_progress' =
                  update_progress(scraping_progress, announce_url,
                                  [NoArgs EXCEPT !.status = "completed"], now)
            /\ stats' = [stats EXCEPT !.urls_processed = @ + 1]
            /\ pc' = "run_loop"
            /\ i' = i + 1
       ELSE /\ pc' = "lot_fetch"
            /\ UNCHANGED <<scraping_progress, stats, i>>
    /\ UNCHANGED <<lot_details, now, site, runs, resume, max_urls, urls, announce_url,
                   html_content, exc, lot_ids, j, shutdown_requested, run_clean,
                   otherVars>>

\* process_lot: get_lot_detail answers resp with table rows html
ProcessLot(resp, html) ==
    /\ pc = "lot_fetch"
    /\ html \in DetailHtmls(lot_ids[j])
    /\ IF NoContent(resp)
       THEN /\ stats' = [stats EXCEPT !.lots_failed = @ + 1]
            /\ run_clean' = FALSE
            /\ UNCHANGED <<lot_details, scraping_progress>>
       ELSE LET parsed_data == parse_lot_table(html)
                st == determine_parse_status(parsed_data)
                ins == insert_lot_detail(lot_details, announce_url, lot_ids[j],
                           extract_announce_id(announce_url), parsed_data, st[1], st[2])
            IN  /\ lot_details' = ins.tbl
                /\ IF ins.ok
                   THEN /\ stats' = [stats EXCEPT !.lots_saved = @ + 1]
                        /\ scraping_progress' =
                              increment_processed(scraping_progress, announce_url)
                   ELSE UNCHANGED <<stats, scraping_progress>>
                /\ UNCHANGED run_clean
    /\ j' = j + 1
    /\ pc' = "lot_loop"
    /\ UNCHANGED <<now, site, runs, resume, max_urls, urls, i, announce_url,
                   html_content, exc, lot_ids, shutdown_requested, otherVars>>

\* mutant: process_lot has no try/except, the exception reaches process_url
ProcessLotRaisesPropagates ==
    /\ pc = "lot_fetch"
    /\ exc' = "boom"
    /\ pc' = "except"
    /\ run_clean' = FALSE
    /\ UNCHANGED <<scraping_progress, lot_details, now, site, runs, resume, max_urls,
                   urls, i, announce_url, html_content, lot_ids, j,
                   shutdown_requested, stats, otherVars>>

\* process_lot: an exception is caught by its except clause
ProcessLotRaises ==
    /\ pc = "lot_fetch"
    /\ stats' = [stats EXCEPT !.lots_failed = @ + 1]
    /\ run_clean' = FALSE
    /\ j' = j + 1
    /\ pc' = "lot_loop"
    /\ UNCHANGED <<scraping_progress, lot_details, now, site, runs, resume, max_urls,
                   urls, i, announce_url, html_content, exc, lot_ids,
                   shutdown_requested, otherVars>>

\* the process dies between the INSERT commit and increment_processed
KillAfterInsert(html) ==
    /\ pc = "lot_fetch"
    /\ html \in DetailHtmls(lot_ids[j])
    /\ LET parsed_data == parse_lot_table(html)
           st == determine_parse_status(parsed_data)
           ins == insert_lot_detail(lot_details, announce_url, lot_ids[j],
                      extract_announce_id(announce_url), parsed_data, st[1], st[2])
       IN  /\ ins.ok
           /\ lot_details' = ins.tbl
    /\ pc' = "killed"
    /\ run_clean' = FALSE
    /\ Forgotten
    /\ UNCHANGED <<scraping_progress, now, site, runs, resume, max_urls, otherVars>>

\* every step of a running process, and the signal
RunSteps ==
    \/ RequestShutdown
    \/ Kill
    \/ RunLoopExit
    \/ ProcessUrlEnter
    \/ UrlCheck
    \/ \E resp \in FetchResponses : FetchListing(resp)
    \/ \E e \in ExceptionMessages : FetchListingRaises(e)
    \/ HandleListing
    \/ ExceptHandler
    \/ LotLoopHead
    \/ \E resp \in DetailResponses : \E html \in AllDetailHtmls : ProcessLot(resp, html)
    \/ ProcessLotRaises
    \/ \E html \in AllDetailHtmls : KillAfterInsert(html)

Next ==
    \/ \E res \in BOOLEAN, max \in MaxUrlsArgs, s \in Sites : StartRun(res, max, s)
    \/ RunSteps

Spec == Init /\ [][Next]_vars

(***************************************************************************)
(* The same program against a portal whose listings do not change          *)
(***************************************************************************)
NextStable ==
    \/ \E res \in BOOLEAN, max \in MaxUrlsArgs : StartRun(res, max, site)
    \/ RunSteps

SpecStable == Init /\ [][NextStable]_vars

(***************************************************************************)
(* The same program when the input file may fail to load                   *)
(***************************************************************************)
NextExit ==
    \/ \E kind \in BadInputFiles : LoadUrlsFails(kind)
    \/ \E res \in BOOLEAN, max \in MaxUrlsArgs : StartRun(res, max, site)
    \/ RunSteps

SpecExit == Init /\ [][NextExit]_vars

(***************************************************************************)
(* The same program when no process dies: every run ends by leaving the    *)
(* loop of run()                                                           *)
(***************************************************************************)
NextNoCrash ==
    \/ \E res \in BOOLEAN, max \in MaxUrlsArgs, s \in Sites : StartRun(res, max, s)
    \/ RequestShutdown
    \/ RunLoopExit
    \/ ProcessUrlEnter
    \/ UrlCheck
    \/ \E resp \in FetchResponses : FetchListing(resp)
    \/ \E e \in ExceptionMessages : FetchListingRaises(e)
    \/ HandleListing
    \/ ExceptHandler
    \/ LotLoopHead
    \/ \E resp \in DetailResponses : \E html \in AllDetailHtmls : ProcessLot(resp, html)
    \/ ProcessLotRaises

SpecNoCrash == Init /\ [][NextNoCrash]_vars

(***************************************************************************)
(* The HTTP client on its own: every sequence of transport outcomes        *)
(***************************************************************************)
InitHttp ==
    /\ OrchIdle
    /\ site = CHOOSE s \in Sites : TRUE
    /\ HttpIdle
    /\ max_retries \in 0..MaxRetryArg
    /\ DbIdle
    /\ ScrIdle
    /\ FnIdle
    /\ input_file = None
    /\ exit_status = NoInt

NextHttp ==
    \/ HttpCall /\ UNCHANGED <<orchVars, dbVars, scrVars, fnVars, exitVars>>
    \/ \E o \in Outcomes : HttpAttempt(o) /\ UNCHANGED <<orchVars, dbVars, scrVars, fnVars, exitVars>>
    \/ \E f \in Fetchers, text \in BodyTexts :
          FetcherReturn(f, text) /\ UNCHANGED <<orchVars, dbVars, scrVars, fnVars, exitVars>>

SpecHttp == InitHttp /\ [][NextHttp]_vars

(***************************************************************************)
(* The store on its own: every sequence of insert_lot_detail calls         *)
(***************************************************************************)
StoreLotIds == {"5", "3"}

InitDb ==
    /\ OrchIdle
    /\ site = CHOOSE s \in Sites : TRUE
    /\ HttpIdle
    /\ max_retries = MAX_RETRIES
    /\ DbIdle
    /\ ScrIdle
    /\ FnIdle
    /\ input_file = None
    /\ exit_status = NoInt

DbInsertLotDetail(lot_url, data_lot_id, html) ==
    LET parsed_data == parse_lot_table(html)
        st == determine_parse_status(parsed_data)
        ins == insert_lot_detail(lot_details, lot_url, data_lot_id,
                   extract_announce_id(lot_url), parsed_data, st[1], st[2])
    IN  /\ lot_details' = ins.tbl
        /\ db_ret' = ins.ok
        /\ db_call' = [op |-> "insert_lot_detail", lot_url |-> lot_url,
                       data_lot_id |-> data_lot_id, parsed_data |-> parsed_data]
        /\ UNCHANGED <<scraping_progress, now, site, pc, runs, resume, max_urls, urls,
                       i, announce_url, html_content, exc, lot_ids, j,
                       shutdown_requested, stats, run_clean, httpVars, scrVars, fnVars,
                       exitVars>>

NextDb ==
    \E lot_url \in {U1, U2}, data_lot_id \in StoreLotIds, html \in AllDetailHtmls :
        DbInsertLotDetail(lot_url, data_lot_id, html)

SpecDb == InitDb /\ [][NextDb]_vars

(***************************************************************************)
(* scraper.py: the link discovery crawler                                  *)
(*                                                                         *)
(* A link is the sequence of the '/'-separated segments of its URL; the    *)
(* last segment is a number of fixed width, so that the order of the       *)
(* strings is the order of these numbers.                                  *)
(***************************************************************************)
BASE_URL == <<"https:", "", "goszakup.gov.kz", "ru", "search", "lots">>

LinkIds == 1..3

\* href attributes of the elements the selector matches: a path, an
\* absolute URL, or none (<<>>)
RelHref(n) == <<"", "ru", "announce", "index", n>>
AbsHref(n) == <<"https:", "", "goszakup.gov.kz", "ru", "announce", "index", n>>
Hrefs == {<<>>, AbsHref(1)} \cup {RelHref(n) : n \in LinkIds}

\* urllib.parse.urljoin(base, href) for an absolute URL and for a path
urljoin(base, href) ==
    IF href[1] = "https:" THEN href ELSE SubSeq(base, 1, 3) \o Tail(href)

\* what query_selector_all can return for one page
PageElements ==
    {<<>>} \cup {<<h>> : h \in Hrefs} \cup {<<h1, h2>> : h1 \in Hrefs, h2 \in Hrefs}

\* "max_links and len(self.all_links) >= max_links"
CapReached(links, max) == max # 0 /\ Cardinality(links) >= max

\* the loop of extract_links over the elements from position k on
RECURSIVE ExtractFrom(_, _, _, _, _)
ExtractFrom(elements, k, links, new_links, max) ==
    IF k > Len(elements) \/ CapReached(links, max)
    THEN [all_links |-> links, new_links |-> new_links]
    ELSE LET href == elements[k]
             absolute_url == urljoin(BASE_URL, href)
         IN  IF href = <<>> \/ absolute_url \in links
             THEN ExtractFrom(elements, k + 1, links, new_links, max)
             ELSE IF CapReached(links \cup {absolute_url}, max)
                  THEN [all_links |-> links \cup {absolute_url},
                        new_links |-> Append(new_links, absolute_url)]
                  ELSE ExtractFrom(elements, k + 1, links \cup {absolute_url},
                                   Append(new_links, absolute_url), max)

\* mutant: extract_links does not look at the cap
extract_links_uncapped(elements, links, max) == ExtractFrom(elements, 1, links, <<>>, 0)

extract_links(elements, links, max) == ExtractFrom(elements, 1, links, <<>>, max)

\* what loading one page can do: an error status, an exception of goto, an
\* exception of set_records_per_page (first page only), no element matching
\* the selector in time, or elements
PageOutcomes ==
    [kind : {"status"}, status : {404, 500}, elements : {<<>>}]
      \cup [kind : {"goto_raises", "dropdown_raises", "selector_timeout"},
            status : {NoInt}, elements : {<<>>}]
      \cup [kind : {"elements"}, status : {200}, elements : PageElements]

\* scrape_page: the outcomes that make it return before extract_links, by
\* "return 0" after a status >= 400 or from its except clause
LoadFails(o) == o.kind \in {"status", "goto_raises", "dropdown_raises"}

\* mutant: a page that fails to load is not reported as a page without
\* new links
scrape_page_failure_uncounted(o, links, scraped, max) ==
    IF o.kind \in {"status", "goto_raises", "dropdown_raises"}
    THEN [all_links |-> links, pages_scraped |-> scraped, count |-> NoInt]
    ELSE LET r == IF o.kind = "selector_timeout"
                  THEN [all_links |-> links, new_links |-> <<>>]
                  ELSE extract_links(o.elements, links, max)
         IN  [all_links |-> r.all_links, pages_scraped |-> scraped + 1,
              count |-> Len(r.new_links)]

\* scrape_page: the link set and the page counter after it, and its result
scrape_page(o, links, scraped, max) ==
    IF o.kind \in {"status", "goto_raises", "dropdown_raises"}
    THEN [all_links |-> links, pages_scraped |-> scraped, count |-> 0]
    ELSE LET r == IF o.kind = "selector_timeout"
                  THEN [all_links |-> links, new_links |-> <<>>]
                  ELSE extract_links(o.elements, links, max)
         IN  [all_links |-> r.all_links, pages_scraped |-> scraped + 1,
              count |-> Len(r.new_links)]

\* the order of sorted() on links
UrlLess(a, b) == a[Len(a)] < b[Len(b)]

Least(S) == CHOOSE a \in S : \A b \in S \ {a} : UrlLess(a, b)

Greatest(S) == CHOOSE a \in S : \A b \in S \ {a} : UrlLess(b, a)

\* mutant: list(self.all_links) without sorted(), here in descending order
RECURSIVE unsorted_links(_)
unsorted_links(S) ==
    IF S = {} THEN <<>> ELSE <<Greatest(S)>> \o unsorted_links(S \ {Greatest(S)})

\* sorted(list(self.all_links))
RECURSIVE sorted_links(_)
sorted_links(S) ==
    IF S = {} THEN <<>> ELSE <<Least(S)>> \o sorted_links(S \ {Least(S)})

\* save_checkpoint: the data dictionary (the fields that vary within a run)
CheckpointData(links, scraped) ==
    [exists |-> TRUE, complete |-> TRUE, total_links |-> Cardinality(links),
     pages_scraped |-> scraped, links |-> sorted_links(links)]

\* a file json.dump has not finished writing d to: opened and truncated,
\* then cut after the metadata or inside the link list
Truncated == [Absent EXCEPT !.exists = TRUE]

PartialWrites(d) ==
    {Truncated} \cup {[d EXCEPT !.complete = FALSE, !.links = SubSeq(d.links, 1, k)] :
                        k \in 0..Len(d.links)}

\* mutant: json.dump writes to the output file itself
WritePathIsOutput == "out"

\* save_checkpoint: the file json.dump writes to, output_filepath + '.tmp'
WritePath == "tmp"

CheckpointIntervals == {1, 2}

MaxLinksArgs == {0, 2}

nonScrVars == <<orchVars, httpVars, dbVars, fnVars, exitVars>>

ScrRunning == s_pc \in {"setup", "loop_top", "scrape", "after_page", "cap_check", "save_open", "save_write", "save_replace"}

\* asyncio.run(scraper.run(max_links, start_page)) is called
ScrStart(max, k) ==
    /\ s_pc = "not_started"
    /\ s_pc' = "setup"
    /\ s_max_links' = max
    /\ checkpoint_interval' = k
    /\ UNCHANGED <<all_links, pages_scraped, page_num, consecutive_empty_pages,
                   new_links_count, files, save_final, save_data, save_ret, s_exit,
                   new_counts, load_failures, final_saves>>
    /\ UNCHANGED nonScrVars

\* save_checkpoint(final) is entered: the data is prepared; run goes on at
\* ret when it returns
EnterSave(final, ret) ==
    /\ s_pc' = "save_open"
    /\ save_final' = final
    /\ save_data' = CheckpointData(all_links, pages_scraped)
    /\ save_ret' = ret
    /\ final_saves' = IF final THEN final_saves + 1 ELSE final_saves

\* run: setup_browser returns, or raises into "except Exception"
ScrSetup(ok) ==
    /\ s_pc = "setup"
    /\ IF ok
       THEN /\ s_pc' = "loop_top"
            /\ UNCHANGED <<save_final, save_data, save_ret, s_exit, final_saves>>
       ELSE /\ s_exit' = "Exception"
            /\ EnterSave(TRUE, "ended")
    /\ UNCHANGED <<s_max_links, checkpoint_interval, all_links, pages_scraped, page_num,
                   consecutive_empty_pages, new_links_count, files, new_counts, load_failures>>
    /\ UNCHANGED nonScrVars

\* run: the cap check at the top of the while loop
ScrLoopTop ==
    /\ s_pc = "loop_top"
    /\ IF CapReached(all_links, s_max_links)
       THEN /\ s_exit' = "max_links"
            /\ EnterSave(TRUE, "ended")
       ELSE /\ s_pc' = "scrape"
            /\ UNCHANGED <<save_final, save_data, save_ret, s_exit, final_saves>>
    /\ UNCHANGED <<s_max_links, checkpoint_interval, all_links, pages_scraped, page_num,
                   consecutive_empty_pages, new_links_count, files, new_counts, load_failures>>
    /\ UNCHANGED nonScrVars

\* run: scrape_page(page_num, is_first_page, max_links) returns
ScrapePage(o) ==
    /\ s_pc = "scrape"
    /\ page_num <= MaxPages
    /\ o.kind = "dropdown_raises" => page_num = 1
    /\ LET r == scrape_page(o, all_links, pages_scraped, s_max_links)
       IN  /\ all_links' = r.all_links
           /\ pages_scraped' = r.pages_scraped
           /\ new_links_count' = r.count
           /\ new_counts' = Append(new_counts, IF r.count = 0 THEN 0 ELSE 1)
    /\ load_failures' = IF LoadFails(o) THEN load_failures + 1 ELSE 0
    /\ s_pc' = "after_page"
    /\ UNCHANGED <<s_max_links, checkpoint_interval, page_num, consecutive_empty_pages,
                   files, save_final, save_data, save_ret, s_exit, final_saves>>
    /\ UNCHANGED nonScrVars

\* run: max_consecutive_empty
max_consecutive_empty == 3

\* mutant: a page without a new link leaves the counter as it is
NextEmptyCountStuck(c, n) == IF n = 0 THEN c ELSE 0

\* mutant: a page with new links leaves the counter as it is
NextEmptyCountNoReset(c, n) == IF n = 0 THEN c + 1 ELSE c

\* run: consecutive_empty_pages after a page with n new links
NextEmptyCount(c, n) == IF n = 0 THEN c + 1 ELSE 0

\* run: "if self.pages_scraped % self.config['CHECKPOINT_INTERVAL'] == 0"
CheckpointDue(scraped, k) == scraped % k = 0

\* run: the empty-page check and the checkpoint after a page
ScrAfterPage ==
    /\ s_pc = "after_page"
    /\ consecutive_empty_pages' = NextEmptyCount(consecutive_empty_pages, new_links_count)
    /\ IF new_links_count = 0 /\ consecutive_empty_pages' >= max_consecutive_empty
       THEN /\ s_exit' = "empty_pages"
            /\ EnterSave(TRUE, "ended")
       ELSE IF CheckpointDue(pages_scraped, checkpoint_interval)
            THEN /\ EnterSave(FALSE, "cap_check")
                 /\ UNCHANGED s_exit
            ELSE /\ s_pc' = "cap_check"
                 /\ UNCHANGED <<save_final, save_data, save_ret, s_exit, final_saves>>
    /\ UNCHANGED <<s_max_links, checkpoint_interval, all_links, pages_scraped, page_num,
                   new_links_count, files, new_counts, load_failures>>
    /\ UNCHANGED nonScrVars

\* run: the second cap check, the delay and "page_num += 1"
ScrCapCheck ==
    /\ s_pc = "cap_check"
    /\ IF CapReached(all_links, s_max_links)
       THEN /\ s_exit' = "max_links"
            /\ EnterSave(TRUE, "ended")
            /\ UNCHANGED page_num
       ELSE /\ s_pc' = "loop_top"
            /\ page_num' = page_num + 1
            /\ UNCHANGED <<save_final, save_data, save_ret, s_exit, final_saves>>
    /\ UNCHANGED <<s_max_links, checkpoint_interval, all_links, pages_scraped,
                   consecutive_empty_pages, new_links_count, files, new_counts, load_failures>>
    /\ UNCHANGED nonScrVars

\* save_checkpoint returns to run, which ends after a final save
SaveReturn ==
    /\ s_pc' = save_ret
    /\ save_final' = FALSE
    /\ save_data' = Absent
    /\ save_ret' = None

\* save_checkpoint: open(temp_filepath, 'w') truncates the file, or raises
\* into the except clause of save_checkpoint
SaveOpen(ok) ==
    /\ s_pc = "save_open"
    /\ IF ok
       THEN /\ files' = [files EXCEPT ![WritePath] = Truncated]
            /\ s_pc' = "save_write"
            /\ UNCHANGED <<save_final, save_data, save_ret>>
       ELSE /\ SaveReturn
            /\ UNCHANGED files
    /\ UNCHANGED <<s_max_links, checkpoint_interval, all_links, pages_scraped, page_num,
                   consecutive_empty_pages, new_links_count, s_exit, new_counts, load_failures,
                   final_saves>>
    /\ UNCHANGED nonScrVars

\* save_checkpoint: json.dump writes the whole data and the file is closed,
\* or a write raises and leaves part of it
SaveWrite(ok) ==
    /\ s_pc = "save_write"
    /\ IF ok
       THEN /\ files' = [files EXCEPT ![WritePath] = save_data]
            /\ s_pc' = "save_replace"
            /\ UNCHANGED <<save_final, save_data, save_ret>>
       ELSE /\ \E part \in PartialWrites(save_data) :
                  files' = [files EXCEPT ![WritePath] = part]
            /\ SaveReturn
    /\ UNCHANGED <<s_max_links, checkpoint_interval, all_links, pages_scraped, page_num,
                   consecutive_empty_pages, new_links_count, s_exit, new_counts, load_failures,
                   final_saves>>
    /\ UNCHANGED nonScrVars

\* save_checkpoint: os.replace(temp_filepath, output_filepath), or it raises
SaveReplace(ok) ==
    /\ s_pc = "save_replace"
    /\ IF ok
       THEN files' = [files EXCEPT !["out"] = files["tmp"], !["tmp"] = Absent]
       ELSE UNCHANGED files
    /\ SaveReturn
    /\ UNCHANGED <<s_max_links, checkpoint_interval, all_links, pages_scraped, page_num,
                   consecutive_empty_pages, new_links_count, s_exit, new_counts, load_failures,
                   final_saves>>
    /\ UNCHANGED nonScrVars

\* how Ctrl+C reaches the coroutine run: as KeyboardInterrupt raised in its
\* own code, or as CancelledError raised at its await when the event loop
\* cancels the main task
InterruptKinds == {"KeyboardInterrupt", "CancelledError"}

\* run: the except clauses catch the interrupt ("except KeyboardInterrupt";
\* CancelledError is no Exception) and save once more
InterruptSaves(kind) == kind = "KeyboardInterrupt"

\* Ctrl+C while run is inside its while loop, waiting for a page or in the
\* delay between pages
ScrInterrupt(kind) ==
    /\ s_pc \in {"scrape", "cap_check"}
    /\ s_exit' = kind
    /\ IF InterruptSaves(kind)
       THEN EnterSave(TRUE, "ended")
       ELSE /\ s_pc' = "ended"
            /\ UNCHANGED <<save_final, save_data, save_ret, final_saves>>
    /\ UNCHANGED <<s_max_links, checkpoint_interval, all_links, pages_scraped, page_num,
                   consecutive_empty_pages, new_links_count, files, new_counts, load_failures>>
    /\ UNCHANGED nonScrVars

\* the process dies (kill -9, power loss) between two steps
ScrCrash ==
    /\ ScrRunning
    /\ s_pc' = "crashed"
    /\ s_exit' = "crash"
    /\ all_links' = {}
    /\ pages_scraped' = 0
    /\ page_num' = 1
    /\ consecutive_empty_pages' = 0
    /\ new_links_count' = 0
    /\ save_final' = FALSE
    /\ save_data' = Absent
    /\ save_ret' = None
    /\ new_counts' = <<>>
    /\ load_failures' = 0
    /\ final_saves' = 0
    /\ UNCHANGED <<s_max_links, checkpoint_interval, files>>
    /\ UNCHANGED nonScrVars

InitScraper ==
    /\ OrchIdle
    /\ site = CHOOSE s \in Sites : TRUE
    /\ HttpIdle
    /\ max_retries = MAX_RETRIES
    /\ DbIdle
    /\ ScrIdle
    /\ FnIdle
    /\ input_file = None
    /\ exit_status = NoInt

ScrSteps ==
    \/ \E max \in MaxLinksArgs, k \in CheckpointIntervals : ScrStart(max, k)
    \/ \E ok \in BOOLEAN : ScrSetup(ok)
    \/ ScrLoopTop
    \/ \E o \in PageOutcomes : ScrapePage(o)
    \/ ScrAfterPage
    \/ ScrCapCheck
    \/ \E ok \in BOOLEAN : SaveOpen(ok)
    \/ \E ok \in BOOLEAN : SaveWrite(ok)
    \/ \E ok \in BOOLEAN : SaveReplace(ok)
    \/ \E kind \in InterruptKinds : ScrInterrupt(kind)
    \/ ScrCrash

SpecScraper == InitScraper /\ [][ScrSteps]_vars

(***************************************************************************)
(* The store on its own: every sequence of up to MaxCalls calls on the     *)
(* progress table, with inserts of one lot in between. Rows are created    *)
(* and counted for two URLs and updated for the first of them, with every  *)
(* combination of arguments.                                               *)
(***************************************************************************)
StoreUrls == {U1, U2}

\* the keyword arguments update_progress can be called with
StoreArgs ==
    [status : {None, "processing", "completed", "failed"},
     lot_ids_found : {NoInt, 2},
     lot_ids_processed : {NoInt, 1},
     error_count : {NoInt, 1},
     last_error : {None, "boom"}]

InitStore ==
    /\ OrchIdle
    /\ site = CHOOSE s \in Sites : TRUE
    /\ HttpIdle
    /\ max_retries = MAX_RETRIES
    /\ DbIdle
    /\ ScrIdle
    /\ FnIdle
    /\ input_file = None
    /\ exit_status = NoInt

storeFrame == <<lot_details, site, pc, runs, resume, max_urls, urls, i, announce_url, html_content, exc, lot_ids, j, shutdown_requested, stats, run_clean, httpVars, scrVars, fnVars, exitVars>>

DbGetOrCreateProgress(lot_url) ==
    LET r == get_or_create_progress(scraping_progress, lot_url,
                                    extract_announce_id(lot_url), now)
    IN  /\ now <= MaxCalls
        /\ scraping_progress' = r.tbl
        /\ db_ret' = r.row
        /\ db_call' = [op |-> "get_or_create_progress", lot_url |-> lot_url,
                       args |-> NoArgs, t |-> now]
        /\ now' = now + 1
        /\ UNCHANGED storeFrame

DbUpdateProgress(lot_url, a) ==
    /\ now <= MaxCalls
    /\ scraping_progress' = update_progress(scraping_progress, lot_url, a, now)
    /\ db_ret' = None
    /\ db_call' = [op |-> "update_progress", lot_url |-> lot_url, args |-> a, t |-> now]
    /\ now' = now + 1
    /\ UNCHANGED storeFrame

DbIncrementProcessed(lot_url) ==
    /\ now <= MaxCalls
    /\ scraping_progress' = increment_processed(scraping_progress, lot_url)
    /\ db_ret' = None
    /\ db_call' = [op |-> "increment_processed", lot_url |-> lot_url,
                   args |-> NoArgs, t |-> now]
    /\ now' = now + 1
    /\ UNCHANGED storeFrame

NextStore ==
    \/ \E lot_url \in StoreUrls : DbGetOrCreateProgress(lot_url)
    \/ \E a \in StoreArgs : DbUpdateProgress(U1, a)
    \/ \E lot_url \in StoreUrls : DbIncrementProcessed(lot_url)
    \/ \E html \in {PartialTable, FullTable} : DbInsertLotDetail(U1, "5", html)

SpecStore == InitStore /\ [][NextStore]_vars

(***************************************************************************)
(* parsers.py on its own: one call of one function, on every input of a    *)
(* bounded set                                                             *)
(***************************************************************************)
ParserFns ==
    {"determine_parse_status", "extract_lot_ids", "extract_announce_id", "parse_lot_table"}

SeqsUpTo(S, n) == UNION {[1..m -> S] : m \in 0..n}

\* parsed records: every field None or a value, and the same records with
\* an empty string (not None) in lot_number
ParsedDatas ==
    LET base == [FieldKeySet -> {None, "v"}]
    IN  base \cup {[d EXCEPT !["lot_number"] = ""] : d \in base}

LotIdAttrs == {"", "5", "3", "7"}

\* a body that does not parse, and every page with up to MaxLen anchors
MarkupPages == {Garbage} \cup {Page(a) : a \in SeqsUpTo(LotIdAttrs, MaxLen)}

UrlPieces == {"", "index", "announce", "16099116"}

\* str.split never returns an empty list
SplitUrls == SeqsUpTo(UrlPieces, MaxLen) \ {<<>>}

RowLabels == {"Lot No", "Kod TRU", "Primechanie"}

CellValues == {"", "v", "w"}

LotTables == SeqsUpTo(RowLabels \X CellValues, MaxRows)

InputsOf(f) ==
    CASE f = "determine_parse_status" -> ParsedDatas
      [] f = "extract_lot_ids" -> MarkupPages
      [] f = "extract_announce_id" -> SplitUrls
      [] f = "parse_lot_table" -> LotTables

InitParsers ==
    /\ OrchIdle
    /\ site = CHOOSE s \in Sites : TRUE
    /\ HttpIdle
    /\ max_retries = MAX_RETRIES
    /\ DbIdle
    /\ ScrIdle
    /\ input_file = None
    /\ exit_status = NoInt
    /\ fn_name \in ParserFns
    /\ fn_arg \in InputsOf(fn_name)
    /\ fn_pc = "called"
    /\ fn_ret = <<>>

nonFnVars == <<orchVars, httpVars, dbVars, scrVars, exitVars>>

DetermineParseStatusReturns ==
    /\ fn_pc = "called"
    /\ fn_name = "determine_parse_status"
    /\ fn_ret' = determine_parse_status(fn_arg)
    /\ fn_pc' = "returned"
    /\ UNCHANGED <<fn_name, fn_arg, nonFnVars>>

ExtractLotIdsReturns ==
    /\ fn_pc = "called"
    /\ fn_name = "extract_lot_ids"
    /\ fn_ret' = extract_lot_ids(fn_arg)
    /\ fn_pc' = "returned"
    /\ UNCHANGED <<fn_name, fn_arg, nonFnVars>>

ExtractAnnounceIdReturns ==
    /\ fn_pc = "called"
    /\ fn_name = "extract_announce_id"
    /\ fn_ret' = extract_announce_id(fn_arg)
    /\ fn_pc' = "returned"
    /\ UNCHANGED <<fn_name, fn_arg, nonFnVars>>

ParseLotTableReturns ==
    /\ fn_pc = "called"
    /\ fn_name = "parse_lot_table"
    /\ fn_ret' = parse_lot_table(fn_arg)
    /\ fn_pc' = "returned"
    /\ UNCHANGED <<fn_name, fn_arg, nonFnVars>>

NextParsers ==
    \/ DetermineParseStatusReturns
    \/ ExtractLotIdsReturns
    \/ ExtractAnnounceIdReturns
    \/ ParseLotTableReturns

SpecParsers == InitParsers /\ [][NextParsers]_vars

(***************************************************************************)
(* Properties                                                              *)
(***************************************************************************)
Row(u) == RowOf(scraping_progress, u)

NoDuplicateLots(tbl) ==
    \A k1, k2 \in 1..Len(tbl) :
        (tbl[k1].lot_url = tbl[k2].lot_url /\ tbl[k1].data_lot_id = tbl[k2].data_lot_id)
            => k1 = k2

\* a step of the program itself taken from position p (not the signal
\* handler, not the death of the process)
ProgramStepFrom(p) == pc = p /\ pc' # "killed" /\ shutdown_requested' = shutdown_requested

AllListedLotsStored ==
    \A u \in LinkSet :
        LET announce_id == extract_announce_id(u)
        IN  (announce_id # None /\ announce_id # "")
                => \A k \in 1..Len(extract_lot_ids(site[u])) :
                       HasLot(lot_details, u, extract_lot_ids(site[u])[k])

\* C2 (as claimed): when a resume-mode run over the whole input ends without
\* a signal and without a failed fetch, every lot id listed by every input
\* URL has a stored record, whatever the earlier runs were.
Cex_C2 ==
    (pc = "exited" /\ run_clean /\ resume /\ max_urls = NoInt) => AllListedLotsStored

\* C3: insert_lot_detail returns TRUE exactly when the pair was not stored
\* (so TRUE, then FALSE for a repeated pair), stores the pair, leaves every
\* record stored before it as it was, and never stores a pair twice.
Thm_C3 ==
    [][ db_call'.op = "insert_lot_detail"
          => /\ db_ret' = ~HasLot(lot_details, db_call'.lot_url, db_call'.data_lot_id)
             /\ HasLot(lot_details', db_call'.lot_url, db_call'.data_lot_id)
             /\ Len(lot_details') >= Len(lot_details)
             /\ \A k \in 1..Len(lot_details) : lot_details'[k] = lot_details[k]
             /\ NoDuplicateLots(lot_details')
      ]_vars

\* C3 witness: a second insert of a stored pair with other field values was
\* rejected and the stored record still differs from the rejected values
Wit_C3 ==
    /\ db_call.op = "insert_lot_detail"
    /\ db_ret = FALSE
    /\ \E k \in 1..Len(lot_details) :
          /\ lot_details[k].lot_url = db_call.lot_url
          /\ lot_details[k].data_lot_id = db_call.data_lot_id
          /\ lot_details[k].fields # db_call.parsed_data

StatusSteps ==
    {<<"pending", "processing">>, <<"processing", "completed">>,
     <<"processing", "failed">>, <<"failed", "processing">>}

Thm_C5 ==
    [][ /\ (pc \in {"listing_fetched", "except"} /\ pc' # "killed"
              /\ RowOf(scraping_progress', announce_url).status = "failed")
            => /\ pc' = "run_loop"
               /\ i' = i + 1
               /\ urls' = urls
        /\ pc' = "exited" => (pc = "exited" \/ (pc = "run_loop" /\ (i > Len(urls) \/ shutdown_requested)))
      ]_vars

\* C5 witness: in one run the first URL failed and the run is now fetching
\* the listing of the last URL
Wit_C5 ==
    /\ runs = 1
    /\ Len(scraping_progress) = 2
    /\ Row(U1).status = "failed"
    /\ announce_url = U2
    /\ pc = "fetch_listing"
    /\ ~shutdown_requested

\* C6: when get_lot_ids_page returned no content, process_url stores status
\* failed with last_error 'Failed to fetch lot IDs page'; when an exception
\* reached its except clause, it stores status failed with last_error
\* str(e).
Thm_C6 ==
    [][ /\ (ProgramStepFrom("listing_fetched") /\ html_content \in {None, ""})
            => /\ RowOf(scraping_progress', announce_url).status = "failed"
               /\ RowOf(scraping_progress', announce_url).last_error
                     = "Failed to fetch lot IDs page"
        /\ ProgramStepFrom("except")
            => /\ RowOf(scraping_progress', announce_url).status = "failed"
               /\ RowOf(scraping_progress', announce_url).last_error = exc
      ]_vars

\* C6 witness: one URL failed on an exception and another on a listing
\* fetch without content
Wit_C6 ==
    /\ Len(scraping_progress) = 2
    /\ Row(U1).status = "failed"
    /\ Row(U1).last_error \in ExceptionMessages
    /\ Row(U2).status = "failed"
    /\ Row(U2).last_error = "Failed to fetch lot IDs page"

Transient(o) == Is5xx(o) \/ o.kind \in {"Timeout", "ConnectionError"}

\* C7 (as claimed): a 4xx answer other than 429 is the last request of the
\* call: the call has returned None and did not sleep after that answer.
Cex_C7 ==
    \A a \in 1..Len(h_trace) :
        Is4xxOther(h_trace[a])
            => /\ Len(h_trace) = a
               /\ h_pc = "returned"
               /\ h_response = NoInt
               /\ Len(h_sleeps) = a - 1

\* C8: when the transport answered 429 on attempts 1..k and 200 on attempt
\* k + 1, the call has returned the 200 response after exactly k + 1
\* requests, having slept rate_limit_delay * a after each attempt a <= k.
Thm_C8 ==
    \A k \in 0..(Len(h_trace) - 1) :
        ((\A a \in 1..k : Is429(h_trace[a])) /\ h_trace[k + 1] = [kind |-> "status", code |-> 200])
            => /\ k < max_retries
               /\ Len(h_trace) = k + 1
               /\ h_pc = "returned"
               /\ h_response = 200
               /\ h_sleeps = [a \in 1..k |-> RATE_LIMIT_DELAY * a]

\* C8 witness: 429, 429, 200 returned the response after sleeps of 10 and 20
Wit_C8 ==
    /\ h_pc = "returned"
    /\ h_response = 200
    /\ Len(h_trace) = 3
    /\ Is429(h_trace[1])
    /\ Is429(h_trace[2])
    /\ h_sleeps = <<RATE_LIMIT_DELAY, 2 * RATE_LIMIT_DELAY>>

\* C9: when every answer so far was 429, at most max_retries requests were
\* made, and the call has returned exactly when max_retries were, with None.
Thm_C9 ==
    (h_trace # <<>> /\ \A a \in 1..Len(h_trace) : Is429(h_trace[a]))
        => /\ Len(h_trace) <= max_retries
           /\ (h_pc = "returned") = (Len(h_trace) = max_retries)
           /\ h_pc \in {"request", "returned"}
           /\ h_response = NoInt

\* C9 witness: three 429 answers with max_retries = 3, and the call returned
Wit_C9 ==
    /\ max_retries = 3
    /\ h_pc = "returned"
    /\ Len(h_trace) = 3
    /\ \A a \in 1..3 : Is429(h_trace[a])

\* C10: a 5xx answer, a timeout or a connection error at attempt a is
\* followed, when a < max_retries, by a sleep of base_delay * 2^(a-1) and
\* attempt a + 1, and, when a = max_retries, by the return of None without
\* a sleep; the three kinds are treated alike.
Thm_C10 ==
    \A a \in 1..Len(h_trace) :
        Transient(h_trace[a])
            => IF a < max_retries
               THEN /\ Len(h_sleeps) >= a
                    /\ h_sleeps[a] = RETRY_BASE_DELAY * (2 ^ (a - 1))
                    /\ Len(h_trace) > a \/ (h_pc = "request" /\ attempt = a + 1)
               ELSE /\ a = max_retries
                    /\ Len(h_trace) = a
                    /\ h_pc = "returned"
                    /\ h_response = NoInt
                    /\ Len(h_sleeps) = a - 1

\* C10 witness: 500, timeout, connection error, connection error with
\* max_retries = 4 returned after sleeps of 3, 6 and 12
Wit_C10 ==
    /\ max_retries = 4
    /\ h_pc = "returned"
    /\ Len(h_trace) = 4
    /\ Is5xx(h_trace[1])
    /\ h_trace[2].kind = "Timeout"
    /\ h_trace[3].kind = "ConnectionError"
    /\ h_trace[4].kind = "ConnectionError"
    /\ h_sleeps = <<RETRY_BASE_DELAY, 2 * RETRY_BASE_DELAY, 4 * RETRY_BASE_DELAY>>

\* C11: whatever the transport does (any status code, timeout, connection
\* error, other request error), no exception leaves post_with_retry; the
\* call makes at most max_retries requests and has returned once it made
\* that many; it returns None or a response without error status; and the
\* fetcher on top of it returns None or a body text.
Thm_C11 ==
    /\ h_pc # "raised"
    /\ Len(h_trace) <= max_retries
    /\ h_pc = "request" => Len(h_trace) < max_retries
    /\ h_pc = "returned" => (h_response = NoInt \/ (h_response \in StatusCodes /\ h_response < 400))
    /\ h_fetcher # None => (h_pc = "returned" /\ h_body \in {None} \cup BodyTexts)

\* C11 witness: a request error, a 404 and a timeout with max_retries = 3:
\* the call returned None and so did the fetcher
Wit_C11 ==
    /\ max_retries = 3
    /\ h_pc = "returned"
    /\ Len(h_trace) = 3
    /\ h_trace[1].kind = "RequestException"
    /\ Is4xxOther(h_trace[2])
    /\ h_trace[3].kind = "Timeout"
    /\ h_response = NoInt
    /\ h_fetcher = "get_lot_detail"
    /\ h_body = None

\* C12 (as claimed): when the call ended with a response whose status is
\* 200..299, either fetcher returns the body text of that response.
Cex_C12 ==
    (h_fetcher # None /\ 200 <= h_response /\ h_response <= 299) => h_body \in BodyTexts

\* C13: at the head of the lot loop with the shutdown flag set and lot ids
\* left, the loop is left without a fetch for any of them (no lot stored,
\* the position in the list unchanged) and the URL is stored as completed.
Thm_C13 ==
    [][ (ProgramStepFrom("lot_loop") /\ shutdown_requested /\ j <= Len(lot_ids))
          => /\ pc' = "run_loop"
             /\ RowOf(scraping_progress', announce_url).status = "completed"
             /\ j' = j
             /\ lot_details' = lot_details
             /\ stats'.lots_failed = stats.lots_failed
      ]_vars

\* C13 witness: the shutdown cut the lot loop of U1 after the first of its
\* two lots; U1 is completed with one lot processed and the second lot has
\* no record
Wit_C13 ==
    /\ runs = 1
    /\ pc = "run_loop"
    /\ shutdown_requested
    /\ announce_url = U1
    /\ Len(lot_ids) = 2
    /\ j = 2
    /\ Row(U1).status = "completed"
    /\ Row(U1).lot_ids_found = 2
    /\ Row(U1).lot_ids_processed = 1
    /\ ~HasLot(lot_details, U1, lot_ids[2])

\* C14: the signal changes nothing but the flag; with the flag set, the
\* lot in flight is carried to its end (the loop moves to the next
\* position, and what the step stores is that lot), the head of the lot
\* loop starts no fetch, and the head of the run loop enters no URL: the
\* run ends there.
Thm_C14 ==
    [][ /\ (~shutdown_requested /\ shutdown_requested')
            => /\ pc' = pc
               /\ <<scraping_progress, lot_details, now, site, runs, resume, max_urls>>'
                    = <<scraping_progress, lot_details, now, site, runs, resume, max_urls>>
               /\ <<urls, i, announce_url, html_content, exc, lot_ids, j, stats>>'
                    = <<urls, i, announce_url, html_content, exc, lot_ids, j, stats>>
        /\ (shutdown_requested /\ pc = "lot_fetch" /\ pc' # "killed")
            => /\ pc' = "lot_loop"
               /\ j' = j + 1
               /\ lot_details' # lot_details
                     => /\ Len(lot_details') = Len(lot_details) + 1
                        /\ HasLot(lot_details', announce_url, lot_ids[j])
                        /\ stats'.lots_saved = stats.lots_saved + 1
        /\ (shutdown_requested /\ pc = "lot_loop") => pc' \in {"run_loop", "killed"}
        /\ (shutdown_requested /\ pc = "run_loop") => pc' \in {"exited", "killed"}
      ]_vars

\* C14 witness: the flag is set and the first lot of U1, in flight, was
\* stored; the lot loop is at its head with the second lot and two more
\* URLs left
Wit_C14 ==
    /\ runs = 1
    /\ shutdown_requested
    /\ pc = "lot_loop"
    /\ announce_url = U1
    /\ i = 1
    /\ Len(urls) = 3
    /\ Len(lot_ids) = 2
    /\ j = 2
    /\ stats.lots_saved = 1
    /\ HasLot(lot_details, U1, lot_ids[1])
    /\ Row(U1).status = "processing"

\* C15: a step of process_lot that leaves its lot without a record is a
\* failure: it adds one to lots_failed, changes no stored progress and
\* goes on to the next lot; and no step of the lot loop stores status
\* failed for the URL, which is completed when the loop is left.
Thm_C15 ==
    [][ /\ (ProgramStepFrom("lot_fetch") /\ ~HasLot(lot_details', announce_url, lot_ids[j]))
            => /\ stats'.lots_failed = stats.lots_failed + 1
               /\ scraping_progress' = scraping_progress
               /\ pc' = "lot_loop"
               /\ j' = j + 1
        /\ (pc \in {"lot_loop", "lot_fetch"} /\ pc' # "killed")
            => /\ RowOf(scraping_progress', announce_url).status # "failed"
               /\ pc' \in {"lot_loop", "lot_fetch", "run_loop"}
               /\ pc' = "run_loop"
                     => RowOf(scraping_progress', announce_url).status = "completed"
      ]_vars

\* C15 witness: without any signal both lots of U1 failed and U1 is
\* completed
Wit_C15 ==
    /\ runs = 1
    /\ pc = "run_loop"
    /\ ~shutdown_requested
    /\ announce_url = U1
    /\ Len(lot_ids) = 2
    /\ stats.lots_failed = 2
    /\ stats.lots_saved = 0
    /\ Row(U1).status = "completed"
    /\ lot_details = <<>>

\* the number of pages without a new link at the end of the history
RECURSIVE TrailingZeros(_)
TrailingZeros(counts) ==
    IF counts = <<>> \/ counts[Len(counts)] # 0 THEN 0
    ELSE 1 + TrailingZeros(SubSeq(counts, 1, Len(counts) - 1))

LinkCapReached == s_max_links > 0 /\ Cardinality(all_links) >= s_max_links

\* C16: after every page the counter is the number of pages without a new
\* link since the last page with one (0 after a page with new links), the
\* loop is left there exactly when that number has reached 3, and at its
\* two cap checks exactly when the cap is reached; otherwise it goes on.
Thm_C16 ==
    [][ /\ (s_pc = "after_page" /\ s_pc' # "crashed")
            => /\ consecutive_empty_pages' = TrailingZeros(new_counts)
               /\ (s_exit' = "empty_pages") = (TrailingZeros(new_counts) >= 3)
               /\ s_exit' \in {"empty_pages", None}
               /\ new_links_count > 0 => (consecutive_empty_pages' = 0 /\ s_exit' = None)
               /\ s_exit' = None => s_pc' \in {"save_open", "cap_check"}
        /\ (s_pc \in {"loop_top", "cap_check"} /\ s_pc' # "crashed" /\ s_exit' \notin InterruptKinds)
            => /\ (s_exit' = "max_links") = LinkCapReached
               /\ s_exit' \in {"max_links", None}
               /\ s_exit' = None => s_pc' \in {"scrape", "loop_top"}
      ]_vars

\* C16 witness: an empty page, a page with new links, then three empty
\* pages: the loop was left on the empty-page rule after the fifth page
Wit_C16 ==
    /\ s_exit = "empty_pages"
    /\ new_counts = <<0, 1, 0, 0, 0>>
    /\ s_max_links = 0
    /\ s_pc = "ended"

\* C17: with a positive cap the link set never holds more than cap links,
\* and once it holds cap links no page is requested any more.
Thm_C17 ==
    /\ s_max_links > 0 => Cardinality(all_links) <= s_max_links
    /\ LinkCapReached => s_pc \notin {"loop_top", "scrape"}

\* C17 witness: the cap of 2 was reached on the second page and the run
\* ended on it with exactly 2 links
Wit_C17 ==
    /\ s_max_links = 2
    /\ s_pc = "ended"
    /\ s_exit = "max_links"
    /\ new_counts = <<1, 1>>
    /\ Cardinality(all_links) = 2

\* C18 (as claimed): after a page that leaves pages_scraped at a multiple
\* of CHECKPOINT_INTERVAL save_checkpoint is called, and a run that has
\* ended, normally, on an interrupt or on a fatal error, has called
\* save_checkpoint(final=True).
Cex_C18 ==
    [][ /\ (s_pc = "after_page" /\ s_pc' # "crashed" /\ pages_scraped % checkpoint_interval = 0)
            => s_pc' = "save_open"
        /\ s_pc' = "ended" => final_saves' >= 1
      ]_vars

IsSorted(links) == \A k \in 1..(Len(links) - 1) : UrlLess(links[k], links[k + 1])

\* d is a whole snapshot of the link set S
IsSnapshotOf(d, S) ==
    /\ d.complete
    /\ IsSorted(d.links)
    /\ \A k1, k2 \in 1..Len(d.links) : d.links[k1] = d.links[k2] => k1 = k2
    /\ {d.links[k] : k \in 1..Len(d.links)} = S
    /\ d.total_links = Len(d.links)

\* C19: the output file is absent or a whole snapshot in every state, and
\* it changes only in the rename step of a save, to the whole data of that
\* save; a crash or a failed write in a save leaves it as it was.
Thm_C19 ==
    [][ /\ files'["out"].exists => files'["out"].complete
        /\ files'["out"] # files["out"]
              => /\ s_pc = "save_replace"
                 /\ files'["out"] = save_data
                 /\ IsSnapshotOf(files'["out"], all_links)
        /\ s_pc' = "crashed" => files'["out"] = files["out"]
      ]_vars

\* C19 witness: the process died in the middle of a save; the temporary
\* file is cut short and the output file is the whole earlier snapshot
Wit_C19 ==
    /\ s_pc = "crashed"
    /\ files["out"].exists
    /\ files["out"].complete
    /\ Len(files["out"].links) = 1
    /\ files["tmp"].exists
    /\ ~files["tmp"].complete
    /\ Len(files["tmp"].links) = 1
    /\ files["tmp"].total_links = 2

\* C20: while the run is alive no link leaves the set, and every whole
\* file content a save writes (temporary file or output file) is the
\* sorted, duplicate-free list of exactly the links of the set, with
\* total_links its length.
Thm_C20 ==
    [][ /\ s_pc' # "crashed" => all_links \subseteq all_links'
        /\ \A f \in {"out", "tmp"} :
              (files'[f] # files[f] /\ files'[f].exists /\ files'[f].complete)
                  => IsSnapshotOf(files'[f], all_links)
      ]_vars

\* C20 witness: the run ended with three links, found as a path and as an
\* absolute URL, and the output file lists the three in order
Wit_C20 ==
    /\ s_pc = "ended"
    /\ Cardinality(all_links) = 3
    /\ files["out"].exists
    /\ files["out"].links = <<AbsHref(1), AbsHref(2), AbsHref(3)>>
    /\ files["out"].total_links = 3
    /\ files["out"].pages_scraped = 2

\* the number of fields of a parsed record that are not None
NonNullCount(d) == Cardinality({f \in FieldKeySet : d[f] # None})

\* C21: determine_parse_status classifies a 12-field record by its number n
\* of non-null fields: n = 0 gives failed with the no-fields message,
\* 1 <= n <= 11 gives partial with a message naming 12 - n missing fields,
\* n = 12 gives success with no message.
Thm_C21 ==
    (fn_name = "determine_parse_status" /\ fn_pc = "returned") =>
        LET n == NonNullCount(fn_arg)
        IN  /\ n = 0 => fn_ret = <<"failed", "No fields could be parsed">>
            /\ (1 <= n /\ n <= 11) =>
                  /\ fn_ret[1] = "partial"
                  /\ fn_ret[2] = "Only " \o ToString(n) \o "/12 fields parsed ("
                                    \o ToString(12 - n) \o " missing)"
            /\ n = 12 => fn_ret = <<"success", None>>

\* C21 witness: 7 of 12 fields filled were classified partial with 5 missing
Wit_C21 ==
    /\ fn_name = "determine_parse_status"
    /\ fn_pc = "returned"
    /\ NonNullCount(fn_arg) = 7
    /\ fn_ret = <<"partial", "Only 7/12 fields parsed (5 missing)">>

\* the position of the first occurrence of x in the sequence a
FirstPos(a, x) == CHOOSE k \in 1..Len(a) : a[k] = x /\ \A m \in 1..(k - 1) : a[m] # x

\* C22: extract_lot_ids returns the attribute values found in the markup
\* with the empty ones dropped and duplicates removed, each value at the
\* place of its first occurrence; markup without the attribute, or markup
\* that does not parse, gives the empty sequence.
Thm_C22 ==
    (fn_name = "extract_lot_ids" /\ fn_pc = "returned") =>
        LET a == fn_arg.lot_id_attrs
            r == fn_ret
        IN  /\ \A k \in 1..Len(r) : r[k] # ""
            /\ \A k1, k2 \in 1..Len(r) : r[k1] = r[k2] => k1 = k2
            /\ {r[k] : k \in 1..Len(r)} = {a[k] : k \in 1..Len(a)} \ {""}
            /\ \A k1, k2 \in 1..Len(r) :
                   k1 < k2 => FirstPos(a, r[k1]) < FirstPos(a, r[k2])
            /\ (a = <<>> \/ ~fn_arg.parses) => r = <<>>

\* C22 witness: the attribute values 5, 3, 5, 7 gave 5, 3, 7
Wit_C22 ==
    /\ fn_name = "extract_lot_ids"
    /\ fn_pc = "returned"
    /\ fn_arg = Page(<<"5", "3", "5", "7">>)
    /\ fn_ret = <<"5", "3", "7">>

\* the positions of the pieces of a split URL that equal the marker
MarkerPositions(url) == {k \in 1..Len(url) : url[k] = "index"}

\* C23: extract_announce_id returns the piece that follows the first piece
\* equal to 'index', and None when the URL has no such piece or nothing but
\* trailing slashes after it.
Thm_C23 ==
    (fn_name = "extract_announce_id" /\ fn_pc = "returned") =>
        LET hits == MarkerPositions(fn_arg)
        IN  IF hits = {}
            THEN fn_ret = None
            ELSE LET m == CHOOSE k \in hits : \A h \in hits : k <= h
                 IN  IF \A k \in (m + 1)..Len(fn_arg) : fn_arg[k] = ""
                     THEN fn_ret = None
                     ELSE fn_ret = fn_arg[m + 1]

\* C23 witness: .../announce/index/16099116/ gave 16099116
Wit_C23 ==
    /\ fn_name = "extract_announce_id"
    /\ fn_pc = "returned"
    /\ fn_arg = <<"announce", "index", "16099116", "">>
    /\ fn_ret = "16099116"

\* the row's header is one of the 12 mapped labels
MappedRow(row) == \E k \in 1..Len(FieldLabels) : FieldLabels[k] = row[1]

\* C30: parse_lot_table returns a mapping with exactly the 12 field keys; the
\* rows whose header is not a mapped label change nothing (the result is
\* that of the table without them); and a field is None unless some row
\* with its label carries a non-empty value, which is then the field's value.
Thm_C30 ==
    (fn_name = "parse_lot_table" /\ fn_pc = "returned") =>
        /\ DOMAIN fn_ret = FieldKeySet
        /\ Cardinality(DOMAIN fn_ret) = 12
        /\ fn_ret = parse_lot_table(SelectSeq(fn_arg, MappedRow))
        /\ \A n \in 1..Len(FieldKeys) :
               fn_ret[FieldKeys[n]] # None =>
                   \E k \in 1..Len(fn_arg) :
                       /\ fn_arg[k][1] = FieldLabels[n]
                       /\ fn_arg[k][2] # ""
                       /\ fn_ret[FieldKeys[n]] = fn_arg[k][2]

\* C30 witness: a table with a filled mapped row, an unmapped row and a
\* mapped row with an empty cell gave one filled field and eleven None
Wit_C30 ==
    /\ fn_name = "parse_lot_table"
    /\ fn_pc = "returned"
    /\ fn_arg = <<<<"Lot No", "v">>, <<"Primechanie", "w">>, <<"Kod TRU", "">>>>
    /\ fn_ret["lot_number"] = "v"
    /\ \A f \in FieldKeySet \ {"lot_number"} : fn_ret[f] = None

\* the step is a call of the store operation op
StoreCall(op) == db_call' # db_call /\ db_call'.op = op

\* the number of rows of the progress table for a URL
RowCount(tbl, u) == Cardinality({k \in 1..Len(tbl) : tbl[k].lot_url = u})

\* C24: get_or_create_progress returns the existing row and leaves the table
\* as it is when the URL has a row; otherwise it appends exactly one row,
\* with status pending and the time of the call as its start timestamp, and
\* returns it; no URL ever has two rows.
Thm_C24 ==
    [][ /\ StoreCall("get_or_create_progress") =>
            LET u == db_call'.lot_url
            IN  IF HasRow(scraping_progress, u)
                THEN /\ scraping_progress' = scraping_progress
                     /\ db_ret' = RowOf(scraping_progress, u)
                ELSE /\ Len(scraping_progress') = Len(scraping_progress) + 1
                     /\ SubSeq(scraping_progress', 1, Len(scraping_progress)) = scraping_progress
                     /\ db_ret' = scraping_progress'[Len(scraping_progress')]
                     /\ db_ret'.lot_url = u
                     /\ db_ret'.status = "pending"
                     /\ db_ret'.started_at = now
                     /\ db_ret'.started_at # NullTime
        /\ \A u \in StoreUrls : RowCount(scraping_progress', u) <= 1
      ]_vars

\* C24 witness: a second call for a URL returned the row an update had
\* moved to processing, and the table still has that one row
Wit_C24 ==
    /\ db_call.op = "get_or_create_progress"
    /\ db_call.lot_url = U1
    /\ db_call.t = 3
    /\ Len(scraping_progress) = 1
    /\ db_ret = scraping_progress[1]
    /\ db_ret.status = "processing"
    /\ db_ret.started_at = 2

\* the step is update_progress called with the given status on a URL that
\* has a row
StatusSetTo(st) ==
    /\ StoreCall("update_progress")
    /\ db_call'.args.status = st
    /\ HasRow(scraping_progress, db_call'.lot_url)

\* C25 (as claimed): update_progress stamps started_at when a URL's status
\* is set to processing for the first time (the row is still pending), and
\* stamps completed_at whenever status is set to completed.
Cex_C25 ==
    [][ /\ (StatusSetTo("processing")
              /\ RowOf(scraping_progress, db_call'.lot_url).status = "pending")
            => RowOf(scraping_progress', db_call'.lot_url).started_at = now
        /\ StatusSetTo("completed")
            => RowOf(scraping_progress', db_call'.lot_url).completed_at = now
      ]_vars

\* C25 (amended): update_progress stamps started_at when status is set to
\* processing by a call that passes no lot_ids_found, the first time and
\* every later time; a call that passes lot_ids_found leaves started_at as
\* it is; and completed_at is stamped whenever status is set to completed.
Thm_C25 ==
    [][ /\ StatusSetTo("processing") =>
            RowOf(scraping_progress', db_call'.lot_url).started_at =
                IF db_call'.args.lot_ids_found = NoInt
                THEN now
                ELSE RowOf(scraping_progress, db_call'.lot_url).started_at
        /\ StatusSetTo("completed")
            => RowOf(scraping_progress', db_call'.lot_url).completed_at = now
      ]_vars

\* C25 witness: a row created earlier was set to processing at time 3 by a
\* call without lot_ids_found and carries 3 as its start timestamp
Wit_C25 ==
    /\ db_call.op = "update_progress"
    /\ db_call.args.status = "processing"
    /\ db_call.args.lot_ids_found = NoInt
    /\ db_call.t = 3
    /\ HasRow(scraping_progress, db_call.lot_url)
    /\ RowOf(scraping_progress, db_call.lot_url).started_at = 3
    /\ RowOf(scraping_progress, db_call.lot_url).status = "processing"

\* C26: update_progress leaves the number of rows and every row of another
\* URL unchanged; on the row of its URL it sets each passed field to the
\* passed value and leaves each field not passed as it is, the timestamps
\* included unless a status is passed; so a counter or last_error changes
\* without a status, and the status then stays.
Thm_C26 ==
    [][ StoreCall("update_progress") =>
          LET u == db_call'.lot_url
              a == db_call'.args
          IN  /\ Len(scraping_progress') = Len(scraping_progress)
              /\ \A k \in 1..Len(scraping_progress) :
                   LET old == scraping_progress[k]
                       new == scraping_progress'[k]
                   IN  IF old.lot_url # u
                       THEN new = old
                       ELSE /\ new.lot_url = old.lot_url
                            /\ new.announce_id = old.announce_id
                            /\ new.status = IF a.status = None THEN old.status ELSE a.status
                            /\ new.lot_ids_found =
                                 IF a.lot_ids_found = NoInt THEN old.lot_ids_found
                                 ELSE a.lot_ids_found
                            /\ new.lot_ids_processed =
                                 IF a.lot_ids_processed = NoInt THEN old.lot_ids_processed
                                 ELSE a.lot_ids_processed
                            /\ new.error_count =
                                 IF a.error_count = NoInt THEN old.error_count
                                 ELSE a.error_count
                            /\ new.last_error =
                                 IF a.last_error = None THEN old.last_error
                                 ELSE a.last_error
                            /\ new.started_at \in {old.started_at, now}
                            /\ new.completed_at \in {old.completed_at, now}
                            /\ a.status = None =>
                                 /\ new.started_at = old.started_at
                                 /\ new.completed_at = old.completed_at
      ]_vars

\* C26 witness: with two rows stored, a call that passed error_count and
\* last_error and no status changed those two fields of the first row and
\* nothing else
Wit_C26 ==
    /\ db_call.op = "update_progress"
    /\ db_call.lot_url = U1
    /\ db_call.args = [NoArgs EXCEPT !.error_count = 1, !.last_error = "boom"]
    /\ Len(scraping_progress) = 2
    /\ scraping_progress[1] =
          [get_or_create_progress(<<>>, U1, extract_announce_id(U1), 1).row
              EXCEPT !.error_count = 1, !.last_error = "boom"]
    /\ scraping_progress[2] = get_or_create_progress(<<>>, U2, extract_announce_id(U2), 2).row

\* C29: no step of the store deletes a progress row (a URL that has a row
\* keeps one), and no step modifies or deletes a stored lot record (every
\* record stays at its place with the fields, parse_status and
\* error_message written by its insert).
Thm_C29 ==
    [][ /\ \A u \in StoreUrls :
               HasRow(scraping_progress, u) => HasRow(scraping_progress', u)
        /\ Len(scraping_progress') >= Len(scraping_progress)
        /\ Len(lot_details') >= Len(lot_details)
        /\ \A k \in 1..Len(lot_details) : lot_details'[k] = lot_details[k]
      ]_vars

\* C29 witness: after the counter of its URL was incremented and the URL set
\* to completed, a second insert of a stored lot, with other field values,
\* was rejected and the record is still the partial one stored first
Wit_C29 ==
    /\ db_call.op = "insert_lot_detail"
    /\ db_call.parsed_data = parse_lot_table(FullTable)
    /\ db_ret = FALSE
    /\ Len(lot_details) = 1
    /\ lot_details[1].parse_status = "partial"
    /\ lot_details[1].fields = parse_lot_table(PartialTable)
    /\ HasRow(scraping_progress, U1)
    /\ RowOf(scraping_progress, U1).status = "completed"
    /\ RowOf(scraping_progress, U1).lot_ids_processed = 1

\* resume mode is on and the stored status of the URL is completed
CompletedInResume(u) ==
    /\ resume
    /\ HasRow(scraping_progress, u)
    /\ RowOf(scraping_progress, u).status = "completed"

LoadFailure == ~Running /\ pc' = "aborted" /\ <<pc, input_file, exit_status>>' # <<pc, input_file, exit_status>>

\* C28: a process that finds the input file missing or not valid JSON ends
\* with exit status 1 without touching either table or counting a URL or a
\* lot; no step of a running process other than the end of the loop of
\* run() ends the run, whatever was fetched, parsed or rejected by the store
\* (the run goes on with no exit status); and the run that ends after its
\* loop exits with status 0.
Thm_C28 ==
    [][ /\ (LoadFailure /\ input_file' \in {"missing", "invalid_json"})
            => /\ exit_status' = 1
               /\ scraping_progress' = scraping_progress
               /\ lot_details' = lot_details
               /\ stats' = ZeroStats
        /\ (Running /\ pc # "run_loop" /\ pc' # "killed")
            => /\ Running'
               /\ exit_status' = NoInt
        /\ (Running /\ pc' \notin {"killed", "aborted"} /\ ~Running')
            => /\ pc = "run_loop"
               /\ i > Len(urls) \/ shutdown_requested
               /\ pc' = "exited"
               /\ exit_status' = 0
      ]_vars

\* C28 witness: after a run that recorded a failed URL, a process found the
\* input file to be invalid JSON and ended with status 1
Wit_C28 ==
    /\ pc = "aborted"
    /\ input_file = "invalid_json"
    /\ exit_status = 1
    /\ runs = 1
    /\ HasRow(scraping_progress, U1)
    /\ RowOf(scraping_progress, U1).status = "failed"
    /\ RowOf(scraping_progress, U1).last_error = "Failed to fetch lot IDs page"

\* an announcement id can be extracted from the URL (process_url goes on)
Extractable(u) == extract_announce_id(u) \notin {None, ""}

\* C31: while a run is between two calls of process_url, every URL of its
\* list that process_url has returned for, and that has an extractable
\* announcement id, has a progress row with status completed or failed,
\* never pending or processing: whether the lot loop ran to the end, was cut
\* by shutdown, no lot id was found, or a fetch failed or raised.
Thm_C31 ==
    pc = "run_loop" =>
        \A k \in 1..(i - 1) :
            Extractable(urls[k]) =>
                /\ HasRow(scraping_progress, urls[k])
                /\ RowOf(scraping_progress, urls[k]).status \in {"completed", "failed"}

\* C31 witness: process_url has returned for two extractable URLs, one left
\* failed by a fetch that raised and one completed after its lot loop was
\* cut by the shutdown signal
Wit_C31 ==
    /\ pc = "run_loop"
    /\ i = 4
    /\ shutdown_requested
    /\ RowOf(scraping_progress, U1).status = "failed"
    /\ RowOf(scraping_progress, U1).last_error = "boom"
    /\ RowOf(scraping_progress, U2).status = "completed"
    /\ RowOf(scraping_progress, U2).lot_ids_found = 1
    /\ RowOf(scraping_progress, U2).lot_ids_processed = 0
    /\ stats.lots_failed = 0

\* C32 (as claimed): in every reachable state, every URL's
\* lot_ids_processed is at most its lot_ids_found.
Cex_C32 ==
    \A k \in 1..Len(scraping_progress) :
        scraping_progress[k].lot_ids_processed <= scraping_progress[k].lot_ids_found

\* the number of lot records stored for a URL
StoredLots(u) == Cardinality({k \in 1..Len(lot_details) : lot_details[k].lot_url = u})

\* C33 (as claimed): when no process has died, in every state a URL's
\* lot_ids_processed equals the number of lot records stored for it.
Cex_C33 ==
    \A k \in 1..Len(scraping_progress) :
        scraping_progress[k].lot_ids_processed = StoredLots(scraping_progress[k].lot_url)

\* C34: one call of post_with_retry issues at most max_retries requests,
\* whatever the answers were, and is still in its loop only while fewer were
\* issued; the sleep that followed attempt a is rate_limit_delay * a after a
\* 429 and base_delay * 2^(a-1) after any other failure, a being the number
\* of the attempt in the call, whatever kinds of failure came before.
Thm_C34 ==
    /\ Len(h_trace) <= max_retries
    /\ h_pc = "request" => Len(h_trace) < max_retries
    /\ h_pc = "request" => Len(h_sleeps) = Len(h_trace)
    /\ Len(h_sleeps) <= Len(h_trace)
    /\ \A a \in 1..Len(h_sleeps) :
           h_sleeps[a] = IF Is429(h_trace[a])
                         THEN RATE_LIMIT_DELAY * a
                         ELSE RETRY_BASE_DELAY * (2 ^ (a - 1))

\* C34 witness: with max_retries = 3 a 429, a timeout and a 503 were
\* answered, the call returned None after the third request, and the sleep
\* after the timeout was that of attempt 2
Wit_C34 ==
    /\ max_retries = 3
    /\ h_pc = "returned"
    /\ h_response = NoInt
    /\ Len(h_trace) = 3
    /\ Is429(h_trace[1])
    /\ h_trace[2].kind = "Timeout"
    /\ Is5xx(h_trace[3])
    /\ h_sleeps = <<RATE_LIMIT_DELAY, 2 * RETRY_BASE_DELAY>>

\* C35 (as claimed): when a call has made max_retries requests and returned
\* None, it has slept max_retries - 1 times, whatever the failures were.
Cex_C35 ==
    (max_retries >= 1 /\ h_pc = "returned" /\ h_response = NoInt
        /\ Len(h_trace) = max_retries)
        => Len(h_sleeps) = max_retries - 1

\* the URLs of the input file that a process started with cap max would load
\* if nothing were filtered
WithinCap(k, max) == max \in {NoInt, 0} \/ k <= max

FirstEntries(links, max) ==
    IF max \notin {NoInt, 0} /\ Len(links) > max THEN SubSeq(links, 1, max) ELSE links

Thm_C38 ==
    [][(/\ pc = "run_loop"
        /\ i <= Len(urls)
        /\ ~shutdown_requested
        /\ ~Extractable(urls[i])
        /\ pc' # "killed"
        /\ shutdown_requested' = shutdown_requested)
         => /\ pc' = "run_loop"
            /\ i' = i + 1
            /\ scraping_progress' = scraping_progress
            /\ lot_details' = lot_details
            /\ stats' = stats
            /\ html_content' = html_content
            /\ httpVars' = httpVars
            /\ ~HasRow(scraping_progress', urls[i])
      ]_vars

\* C38 witness: the loop has passed U1 and the URL without an id and is at
\* the third URL; the table holds the row of U1 alone
Wit_C38 ==
    /\ pc = "run_loop"
    /\ ~shutdown_requested
    /\ i = 3
    /\ urls[2] = UBad
    /\ ~Extractable(UBad)
    /\ Len(scraping_progress) = 1
    /\ scraping_progress[1].lot_url = U1
    /\ ~HasRow(scraping_progress, UBad)

\* C39: a page that fails to load leaves pages_scraped and the link set as
\* they were and is reported as a page with no new link; the check that
\* follows it adds one to consecutive_empty_pages, and after a third failed
\* load in a row it leaves the loop for the final save, so that no fourth
\* page is requested after three failures in a row.
Thm_C39 ==
    [][/\ (s_pc = "scrape" /\ load_failures' = load_failures + 1)
            => /\ s_pc' = "after_page"
               /\ pages_scraped' = pages_scraped
               /\ all_links' = all_links
               /\ new_links_count' = 0
               /\ new_counts' = Append(new_counts, 0)
       /\ (s_pc = "after_page" /\ load_failures > 0 /\ s_pc' # "crashed")
            => /\ consecutive_empty_pages' = consecutive_empty_pages + 1
               /\ consecutive_empty_pages' >= load_failures
       /\ (s_pc = "after_page" /\ load_failures >= 3 /\ s_pc' # "crashed")
            => /\ s_exit' = "empty_pages"
               /\ s_pc' = "save_open"
               /\ save_final'
       /\ load_failures' <= 3
       /\ load_failures' = 3 => (s_pc' = "after_page" \/ s_exit' = "empty_pages")
      ]_vars

\* C39 witness: the first page gave links and was counted, the next three
\* pages failed to load, and the crawl ended on the empty-page rule with
\* pages_scraped still 1
Wit_C39 ==
    /\ s_pc = "ended"
    /\ s_exit = "empty_pages"
    /\ load_failures = 3
    /\ new_counts = <<1, 0, 0, 0>>
    /\ pages_scraped = 1
    /\ page_num = 4
    /\ all_links # {}

\* every link the portal can show
PortalLinks == {urljoin(BASE_URL, h) : h \in Hrefs \ {<<>>}}

\* C40: the crawl collects links of the portal's finite set only; at every
\* moment at most 3 pages have been requested since the last page that gave
\* a new link, so the number of pages requested is at most 3 for every link
\* collected plus 3, with or without a link cap; once the third such page
\* has been checked the loop is left on the empty-page rule and the final
\* save is called, once.
Thm_C40 ==
    /\ all_links \subseteq PortalLinks
    /\ TrailingZeros(new_counts) <= 3
    /\ Len(new_counts) <= 3 * Cardinality(all_links) + 3
    /\ (TrailingZeros(new_counts) = 3 /\ s_pc # "after_page")
         => /\ s_exit = "empty_pages"
            /\ final_saves = 1
            /\ s_pc \in {"save_open", "save_write", "save_replace", "ended"}
    /\ (s_pc = "ended" /\ s_exit = "empty_pages")
         => /\ TrailingZeros(new_counts) = 3
            /\ final_saves = 1

\* C40 witness: without a link cap two pages gave new links, three pages
\* gave none, the loop ended after the fifth page and the output file holds
\* the final snapshot
Wit_C40 ==
    /\ s_max_links = 0
    /\ s_pc = "ended"
    /\ s_exit = "empty_pages"
    /\ new_counts = <<1, 1, 0, 0, 0>>
    /\ page_num = 5
    /\ Cardinality(all_links) >= 2
    /\ final_saves = 1
    /\ files["out"] = CheckpointData(all_links, pages_scraped)

====
